---- MODULE Spec2Model ----
(***************************************************************************)
(* The backtest engine of chihung1024/stockbacktest: the /backtest handler *)
(* (parallel per-ticker fetch, missing-ticker and calendar checks) and the *)
(* core it drives: createAlignedPriceData, runSingleAssetSimulation,       *)
(* getRebalancingDates, runPortfolioSimulation and, of calculateMetrics,   *)
(* the early returns and the drawdown.                                     *)
(*                                                                         *)
(* JavaScript numbers are modelled as exact rationals <<n, d>> in lowest   *)
(* terms with d > 0, so that "approximately equal" is a statement about    *)
(* the EPSILON the code adds to its divisors and about nothing else; the   *)
(* rounding of IEEE doubles is not modelled.  A date string "YYYY-MM-DD"   *)
(* is the integer YYYYMMDD, whose order is the order of the strings.       *)
(***************************************************************************)
EXTENDS Integers, Sequences, FiniteSets, TLC

(***************************************************************************)
(* Bounds of the model.                                                    *)
(***************************************************************************)
\* prices offered by the collaborator are 0, 1 and MaxPrice
MaxPrice == 2
\* EPSILON is the rational 1/EpsDen (1e-9 in the source)
EpsDen == 4
\* payload.initialAmount
Amount == 100
\* the values of the histories given to calculateMetrics directly are 0,
\* EPSILON, 1, MaxValue and its square, in histories of at most MaxLen points
MaxValue == 2
MaxLen == 4
\* the texts given to parseCsvToMap and fetchAndCacheFromYfinance have at
\* most MaxRows rows after their header
MaxRows == 2

(***************************************************************************)
(* Numbers.                                                                *)
(***************************************************************************)
Abs(x) == IF x < 0 THEN -x ELSE x

RECURSIVE GCD(_, _)
GCD(a, b) == IF b = 0 THEN a ELSE GCD(b, a % b)

\* the rational n/d (d # 0) in lowest terms with a positive denominator
Rat(n, d) ==
    LET g == GCD(Abs(n), Abs(d))
        s == IF d < 0 THEN -1 ELSE 1
    IN  <<s * (n \div g), s * (d \div g)>>

Num(n) == <<n, 1>>
Zero == Num(0)

\* The operations cancel common factors before they multiply, so that the
\* intermediate products stay small.
RAdd(x, y) ==
    LET g == GCD(x[2], y[2])
    IN  Rat(x[1] * (y[2] \div g) + y[1] * (x[2] \div g), (x[2] \div g) * y[2])
RNeg(x) == <<-x[1], x[2]>>
RSub(x, y) == RAdd(x, RNeg(y))
RMul(x, y) ==
    LET g1 == GCD(Abs(x[1]), y[2])
        g2 == GCD(Abs(y[1]), x[2])
    IN  IF x[1] = 0 \/ y[1] = 0 THEN <<0, 1>>
        ELSE <<(x[1] \div g1) * (y[1] \div g2), (x[2] \div g2) * (y[2] \div g1)>>
\* x / y for y # 0 (the model never divides by zero: every divisor of the
\* simulation is price + EPSILON with price >= 0, or a price tested against 0)
RDiv(x, y) ==
    RMul(x, IF y[1] < 0 THEN <<-y[2], -y[1]>> ELSE <<y[2], y[1]>>)
\* x < y, by the integer parts and then the remainders (as Euclid's
\* algorithm, without a product)
RECURSIVE RLt(_, _)
RLt(x, y) ==
    LET qx == x[1] \div x[2]
        qy == y[1] \div y[2]
        rx == x[1] % x[2]
        ry == y[1] % y[2]
    IN  IF qx # qy THEN qx < qy
        ELSE IF ry = 0 THEN FALSE
        ELSE IF rx = 0 THEN TRUE
        ELSE RLt(<<y[2], ry>>, <<x[2], rx>>)
RLe(x, y) == ~RLt(y, x)
RAbs(x) == <<Abs(x[1]), x[2]>>
RMax(x, y) == IF RLt(x, y) THEN y ELSE x
RMin(x, y) == IF RLt(y, x) THEN y ELSE x

One == Num(1)

(***************************************************************************)
(* Math.pow and Math.sqrt leave the rationals.  A real number that is not  *)
(* computed as a rational is carried as the term that denotes it, a tuple  *)
(* of integers longer than a rational: <<op, ...operands>>.  Terms are     *)
(* exact; two equal terms denote equal numbers.                            *)
(***************************************************************************)
IsRat(x) == Len(x) = 2

\* Math.pow(base, exponent) - 1 for base >= 0
PowMinusOne(base, exponent) ==
    IF base = One \/ exponent = Zero THEN Zero
    ELSE IF base = Zero /\ RLt(Zero, exponent) THEN Num(-1)
    ELSE IF exponent = One THEN RSub(base, One)
    ELSE <<1>> \o base \o exponent

\* Math.sqrt(x) for a rational x >= 0
Sqrt(x) == IF x = Zero THEN Zero ELSE IF x = One THEN One ELSE <<2>> \o x
IsSqrt(x) == Len(x) = 3 /\ x[1] = 2
Radicand(x) == <<x[2], x[3]>>

RealAdd(x, y) ==
    IF IsRat(x) /\ IsRat(y) THEN RAdd(x, y)
    ELSE IF x = Zero THEN y
    ELSE IF y = Zero THEN x
    ELSE <<3>> \o x \o y
RealSub(x, y) ==
    IF IsRat(x) /\ IsRat(y) THEN RSub(x, y)
    ELSE IF y = Zero THEN x
    ELSE IF x = y THEN Zero
    ELSE <<4>> \o x \o y
RealMul(x, y) ==
    IF IsRat(x) /\ IsRat(y) THEN RMul(x, y)
    ELSE IF x = Zero \/ y = Zero THEN Zero
    ELSE IF x = One THEN y
    ELSE IF y = One THEN x
    ELSE <<5>> \o x \o y
\* x / y for y # 0
RealDiv(x, y) ==
    IF IsRat(x) /\ IsRat(y) THEN RDiv(x, y)
    ELSE IF x = Zero THEN Zero
    ELSE IF y = One THEN x
    ELSE <<6>> \o x \o y
\* the product of two square roots
IsSqrtProduct(x) == Len(x) = 7 /\ x[1] = 5 /\ x[2] = 2 /\ x[5] = 2
\* x < y for a rational x >= 0 and y a rational, a square root or a
\* product of two square roots: x * x is compared with the radicand
RealLt(x, y) ==
    IF IsRat(y) THEN RLt(x, y)
    ELSE IF IsSqrt(y) THEN RLt(RMul(x, x), Radicand(y))
    ELSE RLt(RDiv(RMul(x, x), <<y[6], y[7]>>), <<y[3], y[4]>>)

TRADING_DAYS_PER_YEAR == 252
RISK_FREE_RATE == Zero
EPSILON == Rat(1, EpsDen)

\* Absent values: null in an optional number, undefined in a Map lookup.
Null == <<>>

(***************************************************************************)
(* Dates.                                                                  *)
(***************************************************************************)
MkDate(y, m, d) == y * 10000 + m * 100 + d
getUTCFullYear(date) == date \div 10000
\* zero-based, as in JavaScript
getUTCMonth(date) == ((date \div 100) % 100) - 1

IsLeap(y) == (y % 4 = 0 /\ y % 100 # 0) \/ y % 400 = 0
DaysInMonth(y, m) ==
    IF m = 2 THEN (IF IsLeap(y) THEN 29 ELSE 28)
    ELSE IF m \in {4, 6, 9, 11} THEN 30 ELSE 31

getUTCDate(date) == date % 100

\* days from 1970-01-01 to the date: Date.getTime() in units of one day
\* (a date string parses to midnight UTC)
getTime(date) ==
    LET m == getUTCMonth(date) + 1
        y == IF m <= 2 THEN getUTCFullYear(date) - 1 ELSE getUTCFullYear(date)
        era == y \div 400
        yoe == y - era * 400
        doy == (153 * (IF m > 2 THEN m - 3 ELSE m + 9) + 2) \div 5
                  + getUTCDate(date) - 1
        doe == yoe * 365 + yoe \div 4 - yoe \div 100 + doy
    IN  era * 146097 + doe - 719468

\* `${startYear}-${startMonth.padStart(2, '0')}-01`
startDateStr(payload) == MkDate(payload.startYear, payload.startMonth, 1)
\* new Date(endYear, endMonth, 0): day 0 of the month after endMonth, that
\* is the last day of endMonth (the runtime's clock is UTC)
endDateStr(payload) ==
    MkDate(payload.endYear, payload.endMonth,
           DaysInMonth(payload.endYear, payload.endMonth))

(***************************************************************************)
(* Sequences and sets.                                                     *)
(***************************************************************************)
Range(s) == {s[k] : k \in DOMAIN s}

SetMin(S) == CHOOSE x \in S : \A y \in S : x <= y

\* Array.prototype.sort on date strings: ascending
RECURSIVE SortSet(_)
SortSet(S) ==
    IF S = {} THEN <<>>
    ELSE LET m == SetMin(S) IN <<m>> \o SortSet(S \ {m})

RECURSIVE RSumFrom(_, _)
RSumFrom(terms, k) ==
    IF k > Len(terms) THEN Zero ELSE RAdd(terms[k], RSumFrom(terms, k + 1))

(***************************************************************************)
(* Texts.  A text is the sequence of its characters; the words of the      *)
(* yfinance header and the two dates of the rows are single characters.    *)
(***************************************************************************)
WhiteSpace == {" ", "\n", "\r"}

\* String.prototype.trimStart and trimEnd
RECURSIVE trimStart(_)
trimStart(text) ==
    IF text # <<>> /\ Head(text) \in WhiteSpace THEN trimStart(Tail(text))
    ELSE text

RECURSIVE trimEnd(_)
trimEnd(text) ==
    IF text # <<>> /\ text[Len(text)] \in WhiteSpace
    THEN trimEnd(SubSeq(text, 1, Len(text) - 1))
    ELSE text

\* String.prototype.trim of a text
trimText(text) == trimEnd(trimStart(text))

\* String.prototype.split(separator): the pieces between the separators,
\* from character k on, piece being the piece under way
RECURSIVE splitFrom(_, _, _, _)
splitFrom(text, separator, k, piece) ==
    IF k > Len(text) THEN <<piece>>
    ELSE IF text[k] = separator
    THEN <<piece>> \o splitFrom(text, separator, k + 1, <<>>)
    ELSE splitFrom(text, separator, k + 1, Append(piece, text[k]))

split(text, separator) == splitFrom(text, separator, 1, <<>>)

\* Array.prototype.join(separator)
RECURSIVE join(_, _)
join(pieces, separator) ==
    IF pieces = <<>> THEN <<>>
    ELSE IF Len(pieces) = 1 THEN pieces[1]
    ELSE pieces[1] \o <<separator>> \o join(Tail(pieces), separator)

\* String.prototype.startsWith
startsWith(text, prefix) ==
    Len(text) >= Len(prefix) /\ SubSeq(text, 1, Len(prefix)) = prefix

\* Array.prototype.indexOf: the 0-based index of the first x, or -1
indexOf(array, x) ==
    IF \E k \in DOMAIN array : array[k] = x
    THEN SetMin({k \in DOMAIN array : array[k] = x}) - 1
    ELSE -1

\* array[index] where a string is expected: undefined, like the empty
\* string, is falsy
At(array, index) ==
    IF index + 1 \in DOMAIN array THEN array[index + 1] ELSE <<>>

\* the number NaN: the numbers a text of the model parses to are not
\* negative, and NaN is the number that is none of them
NaN == -1
isNaN(number) == number = NaN

Digits == {"0", "1", "2"}
DigitValue(c) == IF c = "0" THEN 0 ELSE IF c = "1" THEN 1 ELSE 2

\* the value of the longest prefix of digits of a text, NaN if it is empty
RECURSIVE digitsFrom(_, _, _)
digitsFrom(text, k, value) ==
    IF k <= Len(text) /\ text[k] \in Digits
    THEN digitsFrom(text, k + 1,
                    10 * (IF isNaN(value) THEN 0 ELSE value) + DigitValue(text[k]))
    ELSE value

\* parseFloat: leading white space is skipped, then the longest prefix that
\* is a number is taken, whatever follows it
parseFloat(text) == digitsFrom(trimStart(text), 1, NaN)

\* Variant: a price is stored whether it is a number or not.
storableAlways(parsedPrice) == TRUE

\* !isNaN(parsedPrice)
storable(parsedPrice) == ~isNaN(parsedPrice)

\* priceMap.set(date, price)
MapSet(priceMap, date, price) ==
    [d \in DOMAIN priceMap \cup {date} |->
        IF d = date THEN price ELSE priceMap[d]]

\* for (const line of lines) { const [date, price] = line.split(','); ... }
RECURSIVE parseLines(_, _, _)
parseLines(lines, k, priceMap) ==
    IF k > Len(lines) THEN priceMap
    ELSE LET fields == split(lines[k], ",")
             date == At(fields, 0)
             price == At(fields, 1)
             parsedPrice == parseFloat(price)
         IN  IF date # <<>> /\ price # <<>> /\ storable(parsedPrice)
             THEN parseLines(lines, k + 1, MapSet(priceMap, date, parsedPrice))
             ELSE parseLines(lines, k + 1, priceMap)

\* csvText.trim().split('\n').slice(1), then the loop
parseCsvToMap(csvText) ==
    parseLines(Tail(split(trimText(csvText), "\n")), 1, <<>>)

(***************************************************************************)
(* The request and what the collaborator can answer.                       *)
(***************************************************************************)
\* a calendar with a month boundary inside a quarter and a year boundary
\* between two first quarters; 2020-02-29 is the last day of a leap February
DateSet == {MkDate(2020, 1, 15), MkDate(2020, 2, 29), MkDate(2021, 1, 4)}

\* a worthless price, a unit price and a higher one: enough for a rise, a
\* fall and a collapse, with quotients that stay within TLC's integers
Prices == {0, 1, MaxPrice}

\* the parsed price maps (date -> price): every complete series over
\* DateSet, and the series with gaps at the price 1
SeriesMenu ==
    {s \in UNION {[S -> Prices] : S \in SUBSET DateSet} :
        DOMAIN s # DateSet => \A d \in DOMAIN s : s[d] = 1}

Periods == {"never", "annually", "quarterly", "monthly"}

PortfolioConfig(name, tickers, weights, period) ==
    [name |-> name, tickers |-> tickers, weights |-> weights,
     rebalancingPeriod |-> period]

\* the whole calendar, and February 2020 alone (both ends cut a date off)
Windows ==
    { [startYear |-> 2020, startMonth |-> 1, endYear |-> 2021, endMonth |-> 1],
      [startYear |-> 2020, startMonth |-> 2, endYear |-> 2020, endMonth |-> 2] }

PortfolioLists ==
    {<<PortfolioConfig("P1", <<"A", "B">>, <<50, 50>>, per)>> : per \in Periods}
    \cup {<<PortfolioConfig("P1", <<"A", "B">>, <<50, 25>>, "monthly")>>}
    \cup {<<PortfolioConfig("P1", <<"A">>, <<100>>, "never")>>}
    \cup {<<PortfolioConfig("P1", <<>>, <<>>, "never")>>}
    \cup {<<PortfolioConfig("P1", <<"A">>, <<100>>, "annually"),
            PortfolioConfig("P2", <<"B", "A">>, <<50, 50>>, "monthly")>>}
    \cup {<<PortfolioConfig("P1", <<"B">>, <<100>>, "monthly"),
            PortfolioConfig("P2", <<"A">>, <<100>>, "never")>>}

Benchmarks == {"", "B"}

Payloads ==
    {[portfolios |-> pl, initialAmount |-> Amount,
      startYear |-> w.startYear, startMonth |-> w.startMonth,
      endYear |-> w.endYear, endMonth |-> w.endMonth, benchmark |-> b] :
        pl \in PortfolioLists, w \in Windows, b \in Benchmarks}

\* String.prototype.trim on the benchmark strings of the model
trim(s) == IF s = " " THEN "" ELSE s

\* payload.benchmark && payload.benchmark.trim() !== ''
benchmarkRequested(payload) ==
    payload.benchmark # "" /\ trim(payload.benchmark) # ""

allTickers(payload) ==
    UNION {Range(payload.portfolios[k].tickers) :
              k \in DOMAIN payload.portfolios}
    \cup (IF benchmarkRequested(payload) THEN {payload.benchmark} ELSE {})

(***************************************************************************)
(* createAlignedPriceData.                                                 *)
(***************************************************************************)
\* A value of type number | null: the number n is <<n>>, null is <<>>.
Box(n) == <<n>>

\* a number | null where a number is expected (the ! of TypeScript checks
\* nothing): arithmetic takes null as 0, and === 0 is false of null
ToNumber(boxed) == IF boxed = Null THEN 0 ELSE boxed[1]
IsZero(boxed) == boxed = Box(0)

\* Variant: rawPriceData[ticker]?.get(date) || null, which takes a price of 0
\* for a missing entry.
LookupFalsy(priceMap, date) ==
    IF date \in DOMAIN priceMap /\ priceMap[date] # 0
    THEN Box(priceMap[date]) ELSE Null

\* Variant: rawPriceData[ticker]?.get(date) ?? 0, which fills a missing
\* entry with the price 0.
LookupZeroFilled(priceMap, date) ==
    IF date \in DOMAIN priceMap THEN Box(priceMap[date]) ELSE Box(0)

\* rawPriceData[ticker]?.get(date) ?? null
Lookup(priceMap, date) ==
    IF date \in DOMAIN priceMap THEN Box(priceMap[date]) ELSE Null

\* Variant: tickers.some(...), which keeps a date that one ticker has.
rowCompleteSome(prices, k) == \E t \in DOMAIN prices : prices[t][k] # Null

\* tickers.every(ticker => prices[ticker][i] !== null)
rowComplete(prices, k) == \A t \in DOMAIN prices : prices[t][k] # Null

\* for (i = 0; i < sortedDates.length; i++) if (every ...) push: the
\* indices of the rows kept, from row k on
RECURSIVE keptRows(_, _, _)
keptRows(prices, n, k) ==
    IF k > n THEN <<>>
    ELSE (IF rowComplete(prices, k) THEN <<k>> ELSE <<>>)
             \o keptRows(prices, n, k + 1)

createAlignedPriceData(rawPriceData, payload) ==
    LET tickers == DOMAIN rawPriceData
        allDates == UNION {DOMAIN rawPriceData[t] : t \in tickers}
        sortedDates ==
            SortSet({date \in allDates :
                        date >= startDateStr(payload) /\ date <= endDateStr(payload)})
        prices == [t \in tickers |->
                      [k \in 1 .. Len(sortedDates) |->
                          Lookup(rawPriceData[t], sortedDates[k])]]
        kept == keptRows(prices, Len(sortedDates), 1)
    IN  [dates |-> [j \in 1 .. Len(kept) |-> sortedDates[kept[j]]],
         prices |-> [t \in tickers |->
                        [j \in 1 .. Len(kept) |-> prices[t][kept[j]]]]]

\* Variant: alignedPriceData.dates.length < 1, which lets one date through.
insufficientDatesOnlyEmpty(alignedData) == Len(alignedData.dates) < 1

\* alignedPriceData.dates.length < 2
insufficientDates(alignedData) == Len(alignedData.dates) < 2

(***************************************************************************)
(* runSingleAssetSimulation.                                               *)
(***************************************************************************)
\* Variant: the divisor guarded with EPSILON, as the portfolio's is, in
\* place of the test for a zero initial price.
runSingleAssetSimulationWithEpsilon(ticker, alignedData, initialAmount) ==
    IF ticker \notin DOMAIN alignedData.prices THEN <<>>
    ELSE LET prices == alignedData.prices[ticker] IN
         IF Len(prices) = 0 THEN <<>>
         ELSE LET shares == RDiv(Num(initialAmount),
                                 RAdd(Num(ToNumber(prices[1])), EPSILON))
              IN  [k \in 1 .. Len(prices) |->
                      [date |-> alignedData.dates[k],
                       value |-> RMul(Num(ToNumber(prices[k])), shares)]]

runSingleAssetSimulation(ticker, alignedData, initialAmount) ==
    IF ticker \notin DOMAIN alignedData.prices THEN <<>>
    ELSE LET prices == alignedData.prices[ticker] IN
         IF Len(prices) = 0 THEN <<>>
         ELSE IF IsZero(prices[1]) THEN <<>>
         ELSE LET shares == RDiv(Num(initialAmount), Num(ToNumber(prices[1]))) IN
              [k \in 1 .. Len(prices) |->
                  [date |-> alignedData.dates[k],
                   value |-> RMul(Num(ToNumber(prices[k])), shares)]]

(***************************************************************************)
(* getRebalancingDates.                                                    *)
(***************************************************************************)
\* Variant: the quarter and the month without their year.
currentMarkerNoYear(date, period) ==
    IF period = "annually" THEN <<getUTCFullYear(date)>>
    ELSE IF period = "quarterly"
         THEN <<0, "Q", (getUTCMonth(date) \div 3) + 1>>
         ELSE <<0, "-", getUTCMonth(date)>>

\* Variant: the quarter without its year.
currentMarkerQuarterOnly(date, period) ==
    IF period = "annually" THEN <<getUTCFullYear(date)>>
    ELSE IF period = "quarterly"
         THEN <<0, "Q", (getUTCMonth(date) \div 3) + 1>>
         ELSE <<getUTCFullYear(date), "-", getUTCMonth(date)>>

\* the bucket key of a date: year, year-Qn or year-month
currentMarker(date, period) ==
    IF period = "annually" THEN <<getUTCFullYear(date)>>
    ELSE IF period = "quarterly"
         THEN <<getUTCFullYear(date), "Q", (getUTCMonth(date) \div 3) + 1>>
         ELSE <<getUTCFullYear(date), "-", getUTCMonth(date)>>

RECURSIVE scanMarkers(_, _, _, _)
scanMarkers(dates, period, k, lastMarker) ==
    IF k > Len(dates) THEN {}
    ELSE LET cur == currentMarker(dates[k], period) IN
         IF cur # lastMarker
         THEN {dates[k]} \cup scanMarkers(dates, period, k + 1, cur)
         ELSE scanMarkers(dates, period, k + 1, lastMarker)

\* Variant: no early return for never, which is then scanned like monthly.
getRebalancingDatesNeverScanned(dates, period) ==
    scanMarkers(dates, IF period = "never" THEN "monthly" ELSE period, 1, Null)
        \ (IF Len(dates) > 0 THEN {dates[1]} ELSE {})

\* Variant: the first date is not deleted from the set.
getRebalancingDatesKeepsFirst(dates, period) ==
    IF period = "never" THEN {}
    ELSE IF period \notin {"annually", "quarterly", "monthly"} THEN {}
    ELSE scanMarkers(dates, period, 1, Null)

getRebalancingDates(dates, period) ==
    IF period = "never" THEN {}
    ELSE IF period \notin {"annually", "quarterly", "monthly"} THEN {}
    ELSE scanMarkers(dates, period, 1, Null)
             \ (IF Len(dates) > 0 THEN {dates[1]} ELSE {})

(***************************************************************************)
(* calculateMetrics.                                                       *)
(***************************************************************************)
Metrics(cagr, mdd, volatility, sharpe, sortino, beta, alpha) ==
    [cagr |-> cagr, mdd |-> mdd, volatility |-> volatility,
     sharpe_ratio |-> sharpe, sortino_ratio |-> sortino,
     beta |-> beta, alpha |-> alpha]

\* Variant: the peak is the first value, never raised.
RECURSIVE drawdownScanFromStart(_, _, _, _)
drawdownScanFromStart(history, k, peak, mdd) ==
    IF k > Len(history) THEN mdd
    ELSE LET v == history[k].value
             pk == IF peak = Null THEN v ELSE peak
             m == IF RLt(EPSILON, pk)
                  THEN RMin(mdd, RDiv(RSub(v, pk), pk))
                  ELSE mdd
         IN  drawdownScanFromStart(history, k + 1, pk, m)

\* Variant: the drawdown is the fall itself, not its share of the peak.
RECURSIVE drawdownScanAbsolute(_, _, _, _)
drawdownScanAbsolute(history, k, peak, mdd) ==
    IF k > Len(history) THEN mdd
    ELSE LET v == history[k].value
             pk == IF peak = Null THEN v ELSE RMax(peak, v)
             m == IF RLt(EPSILON, pk) THEN RMin(mdd, RSub(v, pk)) ELSE mdd
         IN  drawdownScanAbsolute(history, k + 1, pk, m)

\* let peak = -Infinity, mdd = 0; forEach: peak = max(peak, value);
\* if (peak > EPSILON) mdd = min(mdd, (value - peak) / peak)
RECURSIVE drawdownScan(_, _, _, _)
drawdownScan(history, k, peak, mdd) ==
    IF k > Len(history) THEN mdd
    ELSE LET v == history[k].value
             pk == IF peak = Null THEN v ELSE RMax(peak, v)
             m == IF RLt(EPSILON, pk)
                  THEN RMin(mdd, RDiv(RSub(v, pk), pk))
                  ELSE mdd
         IN  drawdownScan(history, k + 1, pk, m)

\* (endDate.getTime() - startDate.getTime()) / (1000 * 60 * 60 * 24 * 365.25)
yearsBetween(startDate, endDate) ==
    Rat(4 * (getTime(endDate) - getTime(startDate)), 1461)

\* years > 0 ? Math.pow(endValue / startValue, 1 / years) - 1 : 0
cagrOf(startValue, endValue, years) ==
    IF RLt(Zero, years)
    THEN PowMinusOne(RDiv(endValue, startValue), RDiv(One, years))
    ELSE Zero

\* for (i = 1; i < history.length; i++)
\*     if (history[i-1].value > EPSILON) push(history[i].value / history[i-1].value - 1)
RECURSIVE returnsFrom(_, _)
returnsFrom(history, k) ==
    IF k > Len(history) THEN <<>>
    ELSE (IF RLt(EPSILON, history[k - 1].value)
          THEN <<RSub(RDiv(history[k].value, history[k - 1].value), One)>>
          ELSE <<>>) \o returnsFrom(history, k + 1)

\* arr.reduce((a, b) => a + b, 0) / arr.length
meanOf(arr) == RDiv(RSumFrom(arr, 1), Num(Len(arr)))

\* the squares of the deviations from m
squaredDeviations(arr, m) ==
    [k \in DOMAIN arr |-> RMul(RSub(arr[k], m), RSub(arr[k], m))]

\* std * Math.sqrt(TRADING_DAYS_PER_YEAR), std the sample deviation
volatilityOf(dailyReturns) ==
    LET meanReturn == meanOf(dailyReturns)
        std == Sqrt(RDiv(RSumFrom(squaredDeviations(dailyReturns, meanReturn), 1),
                         Num(Len(dailyReturns) - 1)))
    IN  RealMul(std, Sqrt(Num(TRADING_DAYS_PER_YEAR)))

\* dailyReturns.filter(r => r < 0)
RECURSIVE negativeFrom(_, _)
negativeFrom(arr, k) ==
    IF k > Len(arr) THEN <<>>
    ELSE (IF RLt(arr[k], Zero) THEN <<arr[k]>> ELSE <<>>)
             \o negativeFrom(arr, k + 1)

\* downsideReturns.length > 1 ? sqrt(sum of squares / length) * sqrt(252) : 0
downsideStdOf(dailyReturns) ==
    LET downsideReturns == negativeFrom(dailyReturns, 1) IN
    IF Len(downsideReturns) > 1
    THEN RealMul(Sqrt(RDiv(RSumFrom(squaredDeviations(downsideReturns, Zero), 1),
                           Num(Len(downsideReturns)))),
                 Sqrt(Num(TRADING_DAYS_PER_YEAR)))
    ELSE Zero

\* Variant: the quotient without its guard.
guardedRatioUnguarded(annualizedExcessReturn, deviation) ==
    RealDiv(annualizedExcessReturn, deviation)

\* deviation > EPSILON ? annualizedExcessReturn / deviation : 0
guardedRatio(annualizedExcessReturn, deviation) ==
    IF RealLt(EPSILON, deviation)
    THEN RealDiv(annualizedExcessReturn, deviation)
    ELSE Zero

variance_p(arr) ==
    IF Len(arr) < 2 THEN Zero
    ELSE RDiv(RSumFrom(squaredDeviations(arr, meanOf(arr)), 1), Num(Len(arr)))

\* Variant: the sample covariance, divided by n - 1.
covarianceSample(arr1, arr2) ==
    IF Len(arr1) # Len(arr2) \/ Len(arr1) < 2 THEN Zero
    ELSE LET mean1 == meanOf(arr1)
             mean2 == meanOf(arr2)
         IN  RDiv(RSumFrom([k \in DOMAIN arr1 |->
                               RMul(RSub(arr1[k], mean1), RSub(arr2[k], mean2))], 1),
                  Num(Len(arr1) - 1))

covariance(arr1, arr2) ==
    IF Len(arr1) # Len(arr2) \/ Len(arr1) < 2 THEN Zero
    ELSE LET mean1 == meanOf(arr1)
             mean2 == meanOf(arr2)
         IN  RDiv(RSumFrom([k \in DOMAIN arr1 |->
                               RMul(RSub(arr1[k], mean1), RSub(arr2[k], mean2))], 1),
                  Num(Len(arr1)))

\* Variant: the two return series are not required to be equally long.
returnsComparableAnyLength(dailyReturns, benchReturns) ==
    Len(dailyReturns) > 1

\* dailyReturns.length === benchReturns.length && dailyReturns.length > 1
returnsComparable(dailyReturns, benchReturns) ==
    Len(dailyReturns) = Len(benchReturns) /\ Len(dailyReturns) > 1

\* Variant: any variance other than zero is divided by.
varianceUsableNonZero(variance) == variance # Zero

\* variance > EPSILON
varianceUsable(variance) == RLt(EPSILON, variance)

\* let beta = null, alpha = null; if (benchmarkHistory && ...) { ... }
\* benchmarkHistory is Null or <<history>>
betaAlpha(portfolioHistory, benchmarkHistory, dailyReturns, cagr, years, riskFreeRate) ==
    LET absent == [beta |-> Null, alpha |-> Null] IN
    IF benchmarkHistory = Null THEN absent
    ELSE IF Len(benchmarkHistory[1]) # Len(portfolioHistory) THEN absent
    ELSE LET benchReturns == returnsFrom(benchmarkHistory[1], 2) IN
         IF ~returnsComparable(dailyReturns, benchReturns)
         THEN absent
         ELSE LET cov == covariance(dailyReturns, benchReturns)
                  variance == variance_p(benchReturns)
              IN  IF ~varianceUsable(variance) THEN absent
                  ELSE LET beta == RDiv(cov, variance)
                           benchCagr ==
                               cagrOf(benchmarkHistory[1][1].value,
                                      benchmarkHistory[1][Len(benchmarkHistory[1])].value,
                                      years)
                           expectedReturn ==
                               RealAdd(riskFreeRate,
                                       RealMul(beta, RealSub(benchCagr, riskFreeRate)))
                       IN  [beta |-> Box(beta),
                            alpha |-> Box(RealSub(cagr, expectedReturn))]

calculateMetrics(portfolioHistory, benchmarkHistory, riskFreeRate) ==
    IF Len(portfolioHistory) < 2
    THEN Metrics(Zero, Zero, Zero, Zero, Zero, Null, Null)
    ELSE IF RLt(portfolioHistory[1].value, EPSILON)
    THEN Metrics(Zero, Num(-1), Zero, Zero, Zero, Null, Null)
    ELSE LET startValue == portfolioHistory[1].value
             endValue == portfolioHistory[Len(portfolioHistory)].value
             years == yearsBetween(portfolioHistory[1].date,
                                   portfolioHistory[Len(portfolioHistory)].date)
             cagr == cagrOf(startValue, endValue, years)
             mdd == drawdownScan(portfolioHistory, 1, Null, Zero)
             dailyReturns == returnsFrom(portfolioHistory, 2)
         IN  IF Len(dailyReturns) < 2
             THEN Metrics(cagr, mdd, Zero, Zero, Zero, Null, Null)
             ELSE LET volatility == volatilityOf(dailyReturns)
                      annualizedExcessReturn == RealSub(cagr, riskFreeRate)
                      ba == betaAlpha(portfolioHistory, benchmarkHistory,
                                      dailyReturns, cagr, years, riskFreeRate)
                  IN  Metrics(cagr, mdd, volatility,
                              guardedRatio(annualizedExcessReturn, volatility),
                              guardedRatio(annualizedExcessReturn,
                                           downsideStdOf(dailyReturns)),
                              ba.beta, ba.alpha)

(***************************************************************************)
(* runPortfolioSimulation, one loop iteration per step.                    *)
(***************************************************************************)
\* Variant: the prices of the first date, whatever the index.
pricesAtFirstDate(tickers, alignedData, k) ==
    [j \in DOMAIN tickers |-> alignedData.prices[tickers[j]][1]]

\* tickers.map(ticker => alignedData.prices[ticker][i])
pricesAt(tickers, alignedData, i) ==
    [j \in DOMAIN tickers |-> alignedData.prices[tickers[j]][i]]

\* tickers.length === 0 || alignedData.dates.length === 0
emptySimulation(portfolio, alignedData) ==
    Len(portfolio.tickers) = 0 \/ Len(alignedData.dates) = 0

\* Variant: no test of the initial prices.
zeroInitialPriceUntested(portfolio, alignedData) == FALSE

\* initialPrices.some(p => p === 0)
zeroInitialPrice(portfolio, alignedData) ==
    \E j \in DOMAIN portfolio.tickers :
        IsZero(pricesAt(portfolio.tickers, alignedData, 1)[j])

normalizedWeights(weights) == [j \in DOMAIN weights |-> Rat(weights[j], 100)]

\* Variant: the weights are used as given, not divided by 100.
allocateRawWeights(weights, amount, prices) ==
    [j \in DOMAIN weights |->
        RDiv(RMul(amount, Num(weights[j])),
             RAdd(Num(ToNumber(prices[j])), EPSILON))]

\* normalizedWeights.map((w, j) => (amount * w) / (prices[j] + EPSILON)):
\* the initial allocation with amount = initialAmount, a rebalance with
\* amount = currentValue
allocate(weights, amount, prices) ==
    [j \in DOMAIN weights |->
        RDiv(RMul(amount, normalizedWeights(weights)[j]),
             RAdd(Num(ToNumber(prices[j])), EPSILON))]

\* shares.reduce((sum, s, j) => sum + s * currentPrices[j], 0)
valueOf(holdings, currentPrices) ==
    RSumFrom([j \in DOMAIN holdings |->
                 RMul(holdings[j], Num(ToNumber(currentPrices[j])))], 1)

\* Variant: a rebalance divides by the initial prices, not the current ones.
sharesAfterInitialPrices(portfolio, alignedData, holdings, k, currentValue) ==
    LET currentPrices == pricesAt(portfolio.tickers, alignedData, k)
        rebalancingDates ==
            getRebalancingDates(alignedData.dates, portfolio.rebalancingPeriod)
    IN  IF alignedData.dates[k] \in rebalancingDates
        THEN IF \E j \in DOMAIN currentPrices : IsZero(currentPrices[j])
             THEN holdings
             ELSE allocate(portfolio.weights, currentValue,
                           pricesAt(portfolio.tickers, alignedData, 1))
        ELSE holdings

\* Variant: no skip on a zero price.
sharesAfterNoSkip(portfolio, alignedData, holdings, k, currentValue) ==
    LET currentPrices == pricesAt(portfolio.tickers, alignedData, k)
        rebalancingDates ==
            getRebalancingDates(alignedData.dates, portfolio.rebalancingPeriod)
    IN  IF alignedData.dates[k] \in rebalancingDates
        THEN allocate(portfolio.weights, currentValue, currentPrices)
        ELSE holdings

\* Variant: every date rebalances, whatever the trigger set.
sharesAfterEveryDate(portfolio, alignedData, holdings, i, currentValue) ==
    LET currentPrices == pricesAt(portfolio.tickers, alignedData, i)
    IN  IF \E j \in DOMAIN currentPrices : IsZero(currentPrices[j])
        THEN holdings
        ELSE allocate(portfolio.weights, currentValue, currentPrices)

\* if (rebalancingDates.has(currentDate)) { if (some price === 0) continue;
\*     shares = ... }
sharesAfter(portfolio, alignedData, holdings, i, currentValue) ==
    LET currentPrices == pricesAt(portfolio.tickers, alignedData, i)
        rebalancingDates ==
            getRebalancingDates(alignedData.dates, portfolio.rebalancingPeriod)
    IN  IF alignedData.dates[i] \in rebalancingDates
        THEN IF \E j \in DOMAIN currentPrices : IsZero(currentPrices[j])
             THEN holdings
             ELSE allocate(portfolio.weights, currentValue, currentPrices)
        ELSE holdings

\* {...record, ...overrides}
Spread(record, overrides) ==
    [f \in DOMAIN record \cup DOMAIN overrides |->
        IF f \in DOMAIN overrides THEN overrides[f] ELSE record[f]]

\* Variant: i < alignedData.dates.length - 1, which stops one date early.
loopDoneEarly(k, alignedData) == k >= Len(alignedData.dates)

\* the loop condition i < alignedData.dates.length, negated (i counts from 1)
loopDone(k, alignedData) == k > Len(alignedData.dates)

SimulationResult(name, metrics, history) ==
    [name |-> name, metrics |-> metrics, portfolioHistory |-> history]

\* the loop of runPortfolioSimulation from date k on, as one function
RECURSIVE simulateFrom(_, _, _, _, _)
simulateFrom(portfolio, alignedData, k, holdings, history) ==
    IF loopDone(k, alignedData) THEN history
    ELSE LET currentValue ==
                 valueOf(holdings, pricesAt(portfolio.tickers, alignedData, k))
         IN  simulateFrom(portfolio, alignedData, k + 1,
                          sharesAfter(portfolio, alignedData, holdings, k,
                                      currentValue),
                          Append(history, [date |-> alignedData.dates[k],
                                           value |-> currentValue]))

\* runPortfolioSimulation as a function of its four arguments
runPortfolioSimulation(portfolio, alignedData, initialAmount, benchHistory) ==
    IF \/ emptySimulation(portfolio, alignedData)
       \/ zeroInitialPrice(portfolio, alignedData)
    THEN SimulationResult(portfolio.name,
                          calculateMetrics(<<>>, Null, RISK_FREE_RATE), <<>>)
    ELSE LET history ==
                 simulateFrom(portfolio, alignedData, 1,
                              allocate(portfolio.weights, Num(initialAmount),
                                       pricesAt(portfolio.tickers, alignedData, 1)),
                              <<>>)
         IN  SimulationResult(portfolio.name,
                              calculateMetrics(history, benchHistory,
                                               RISK_FREE_RATE),
                              history)

(***************************************************************************)
(* The /backtest handler.                                                  *)
(***************************************************************************)
VARIABLES
    payload,            \* the parsed request body
    pc,                 \* where the handler is
    pending,            \* tickers whose fetch promise has not settled
    rawPriceData,       \* ticker -> parsed price map
    missingTickers,     \* tickers neither source could supply, in push order
    alignedPriceData,   \* [dates, prices]
    benchmarkHistory,   \* Null, or <<history>>
    resultsData,        \* one result per portfolio simulated so far
    p,                  \* index of the portfolio being simulated
    i,                  \* loop index of runPortfolioSimulation
    shares,             \* its share counts
    portfolioHistory,   \* its history so far
    response,           \* the response sent, status 0 before it is sent
    STOCK_DATA_BUCKET,  \* ticker -> Null, or <<text>> of prices/<ticker>.csv
    remote,             \* what yfinance answers and whether a put fails, per ticker
    fetches             \* ticker -> the locals of its fetch promise

\* the stores and the promises' locals
store == <<STOCK_DATA_BUCKET, remote, fetches>>

vars == <<payload, pc, pending, rawPriceData, missingTickers, alignedPriceData,
          benchmarkHistory, resultsData, p, i, shares, portfolioHistory, response,
          STOCK_DATA_BUCKET, remote, fetches>>

NoResponse == [status |-> 0, message |-> "", missing |-> <<>>,
               data |-> <<>>, benchmark |-> Null]

\* Variant: the failure names the first missing ticker only.
missingTickersErrorFirstOnly(missing) ==
    [status |-> 400, message |-> "missing ticker data",
     missing |-> <<missing[1]>>, data |-> <<>>, benchmark |-> Null]

\* error(400, `... ${missingTickers.join(', ')}`)
missingTickersError(missing) ==
    [status |-> 400, message |-> "missing ticker data", missing |-> missing,
     data |-> <<>>, benchmark |-> Null]

\* error(400, '... not enough common trading days ...')
insufficientDatesError ==
    [status |-> 400, message |-> "insufficient common trading days",
     missing |-> <<>>, data |-> <<>>, benchmark |-> Null]

\* json({data: resultsData, benchmark: benchmarkResult, warning: null})
jsonResponse(data, benchmarkResult) ==
    [status |-> 200, message |-> "", missing |-> <<>>,
     data |-> data, benchmark |-> benchmarkResult]

Init ==
    /\ payload \in Payloads
    /\ pc = "fetch"
    /\ pending = allTickers(payload)
    /\ rawPriceData = <<>>
    /\ missingTickers = <<>>
    /\ alignedPriceData = [dates |-> <<>>, prices |-> <<>>]
    /\ benchmarkHistory = Null
    /\ resultsData = <<>>
    /\ p = 0
    /\ i = 0
    /\ shares = <<>>
    /\ portfolioHistory = <<>>
    /\ response = NoResponse
    /\ STOCK_DATA_BUCKET = <<>>
    /\ remote = <<>>
    /\ fetches = <<>>

\* One fetch promise settles with text from the bucket or from the fallback:
\* rawPriceData[ticker] = parseCsvToMap(csvText)
FetchFound(ticker) ==
    /\ pc = "fetch"
    /\ ticker \in pending
    /\ \E priceMap \in SeriesMenu :
          rawPriceData' =
              [t \in DOMAIN rawPriceData \cup {ticker} |->
                  IF t = ticker THEN priceMap ELSE rawPriceData[t]]
    /\ pending' = pending \ {ticker}
    /\ UNCHANGED store
    /\ UNCHANGED <<payload, pc, missingTickers, alignedPriceData,
                   benchmarkHistory, resultsData, p, i, shares,
                   portfolioHistory, response>>

\* One fetch promise settles with no text from either source:
\* missingTickers.push(ticker)
FetchMissing(ticker) ==
    /\ pc = "fetch"
    /\ ticker \in pending
    /\ missingTickers' = Append(missingTickers, ticker)
    /\ pending' = pending \ {ticker}
    /\ UNCHANGED store
    /\ UNCHANGED <<payload, pc, rawPriceData, alignedPriceData,
                   benchmarkHistory, resultsData, p, i, shares,
                   portfolioHistory, response>>

\* Variant: the promises are not awaited, the handler goes on at once.
AwaitAllUnsettled ==
    /\ pc = "fetch"
    /\ IF Len(missingTickers) > 0
       THEN /\ response' = missingTickersError(missingTickers)
            /\ pc' = "done"
       ELSE /\ response' = response
            /\ pc' = "align"
    /\ UNCHANGED store
    /\ UNCHANGED <<payload, pending, rawPriceData, missingTickers,
                   alignedPriceData, benchmarkHistory, resultsData, p, i,
                   shares, portfolioHistory>>

\* await Promise.all(promises); if (missingTickers.length > 0) return error
AwaitAll ==
    /\ pc = "fetch"
    /\ pending = {}
    /\ IF Len(missingTickers) > 0
       THEN /\ response' = missingTickersError(missingTickers)
            /\ pc' = "done"
       ELSE /\ response' = response
            /\ pc' = "align"
    /\ UNCHANGED store
    /\ UNCHANGED <<payload, pending, rawPriceData, missingTickers,
                   alignedPriceData, benchmarkHistory, resultsData, p, i,
                   shares, portfolioHistory>>

\* alignedPriceData = createAlignedPriceData(...); if (dates.length < 2) return error
Align ==
    /\ pc = "align"
    /\ alignedPriceData' = createAlignedPriceData(rawPriceData, payload)
    /\ IF insufficientDates(alignedPriceData')
       THEN /\ response' = insufficientDatesError
            /\ pc' = "done"
       ELSE /\ response' = response
            /\ pc' = "benchmark"
    /\ UNCHANGED store
    /\ UNCHANGED <<payload, pending, rawPriceData, missingTickers,
                   benchmarkHistory, resultsData, p, i, shares,
                   portfolioHistory>>

\* benchmarkHistory = requested ? runSingleAssetSimulation(...) : null
Benchmark ==
    /\ pc = "benchmark"
    /\ benchmarkHistory' =
          IF benchmarkRequested(payload)
          THEN <<runSingleAssetSimulation(payload.benchmark, alignedPriceData,
                                          payload.initialAmount)>>
          ELSE Null
    /\ p' = 1
    /\ pc' = "portfolio"
    /\ UNCHANGED store
    /\ UNCHANGED <<payload, pending, rawPriceData, missingTickers,
                   alignedPriceData, resultsData, i, shares, portfolioHistory,
                   response>>

\* Variant: portfolioHistory is one array shared by all the simulations of
\* the request, not an array created by each.
StartPortfolioSharedHistory ==
    /\ pc = "portfolio"
    /\ p <= Len(payload.portfolios)
    /\ LET portfolio == payload.portfolios[p] IN
       IF \/ emptySimulation(portfolio, alignedPriceData)
          \/ zeroInitialPrice(portfolio, alignedPriceData)
       THEN /\ resultsData' =
                  Append(resultsData,
                         SimulationResult(portfolio.name,
                             calculateMetrics(<<>>, Null, RISK_FREE_RATE), <<>>))
            /\ p' = p + 1
            /\ UNCHANGED <<pc, i, shares, portfolioHistory>>
       ELSE /\ shares' = allocate(portfolio.weights, Num(payload.initialAmount),
                                  pricesAt(portfolio.tickers, alignedPriceData, 1))
            /\ portfolioHistory' = portfolioHistory
            /\ i' = 1
            /\ pc' = "loop"
            /\ UNCHANGED <<resultsData, p>>
    /\ UNCHANGED store
    /\ UNCHANGED <<payload, pending, rawPriceData, missingTickers,
                   alignedPriceData, benchmarkHistory, response>>

\* Variant: a degenerate portfolio gives no result.
StartPortfolioDropsDegenerate ==
    /\ pc = "portfolio"
    /\ p <= Len(payload.portfolios)
    /\ LET portfolio == payload.portfolios[p] IN
       IF \/ emptySimulation(portfolio, alignedPriceData)
          \/ zeroInitialPrice(portfolio, alignedPriceData)
       THEN /\ p' = p + 1
            /\ UNCHANGED <<pc, i, shares, portfolioHistory, resultsData>>
       ELSE /\ shares' = allocate(portfolio.weights, Num(payload.initialAmount),
                                  pricesAt(portfolio.tickers, alignedPriceData, 1))
            /\ portfolioHistory' = <<>>
            /\ i' = 1
            /\ pc' = "loop"
            /\ UNCHANGED <<resultsData, p>>
    /\ UNCHANGED store
    /\ UNCHANGED <<payload, pending, rawPriceData, missingTickers,
                   alignedPriceData, benchmarkHistory, response>>

\* runPortfolioSimulation up to its loop: the two early returns, or the
\* initial allocation
StartPortfolio ==
    /\ pc = "portfolio"
    /\ p <= Len(payload.portfolios)
    /\ LET portfolio == payload.portfolios[p] IN
       IF \/ emptySimulation(portfolio, alignedPriceData)
          \/ zeroInitialPrice(portfolio, alignedPriceData)
       THEN /\ resultsData' =
                  Append(resultsData,
                         SimulationResult(portfolio.name,
                             calculateMetrics(<<>>, Null, RISK_FREE_RATE), <<>>))
            /\ p' = p + 1
            /\ UNCHANGED <<pc, i, shares, portfolioHistory>>
       ELSE /\ shares' = allocate(portfolio.weights, Num(payload.initialAmount),
                                  pricesAt(portfolio.tickers, alignedPriceData, 1))
            /\ portfolioHistory' = <<>>
            /\ i' = 1
            /\ pc' = "loop"
            /\ UNCHANGED <<resultsData, p>>
    /\ UNCHANGED store
    /\ UNCHANGED <<payload, pending, rawPriceData, missingTickers,
                   alignedPriceData, benchmarkHistory, response>>

\* Variant: the value pushed is that of the shares after the rebalance.
SimStepValuesAfterRebalance ==
    /\ pc = "loop"
    /\ ~loopDone(i, alignedPriceData)
    /\ LET portfolio == payload.portfolios[p]
           currentPrices == pricesAt(portfolio.tickers, alignedPriceData, i)
           currentValue == valueOf(shares, currentPrices)
       IN  /\ shares' = sharesAfter(portfolio, alignedPriceData, shares, i,
                                    currentValue)
           /\ portfolioHistory' =
                 Append(portfolioHistory,
                        [date |-> alignedPriceData.dates[i],
                         value |-> valueOf(shares', currentPrices)])
    /\ i' = i + 1
    /\ UNCHANGED store
    /\ UNCHANGED <<payload, pc, pending, rawPriceData, missingTickers,
                   alignedPriceData, benchmarkHistory, resultsData, p, response>>

\* one iteration of  for (let i = 0; i < alignedData.dates.length; i++)
SimStep ==
    /\ pc = "loop"
    /\ ~loopDone(i, alignedPriceData)
    /\ LET portfolio == payload.portfolios[p]
           currentValue ==
               valueOf(shares, pricesAt(portfolio.tickers, alignedPriceData, i))
       IN  /\ portfolioHistory' =
                 Append(portfolioHistory,
                        [date |-> alignedPriceData.dates[i], value |-> currentValue])
           /\ shares' = sharesAfter(portfolio, alignedPriceData, shares, i,
                                    currentValue)
    /\ i' = i + 1
    /\ UNCHANGED store
    /\ UNCHANGED <<payload, pc, pending, rawPriceData, missingTickers,
                   alignedPriceData, benchmarkHistory, resultsData, p, response>>

\* after the loop: metrics = calculateMetrics(...); return the result (the
\* locals of the call are left as they are: the next call makes its own)
FinishPortfolio ==
    /\ pc = "loop"
    /\ loopDone(i, alignedPriceData)
    /\ resultsData' =
          Append(resultsData,
                 SimulationResult(payload.portfolios[p].name,
                     calculateMetrics(portfolioHistory, benchmarkHistory,
                                      RISK_FREE_RATE),
                     portfolioHistory))
    /\ p' = p + 1
    /\ pc' = "portfolio"
    /\ UNCHANGED store
    /\ UNCHANGED <<payload, pending, rawPriceData, missingTickers,
                   alignedPriceData, benchmarkHistory, i, shares,
                   portfolioHistory, response>>

\* Variant: a benchmark history that is empty gives no benchmark entry.
RespondWithoutEmptyBenchmark ==
    /\ pc = "portfolio"
    /\ p > Len(payload.portfolios)
    /\ response' =
          jsonResponse(resultsData,
              IF benchmarkHistory # Null /\ benchmarkHistory[1] # <<>>
              THEN <<SimulationResult(payload.benchmark,
                         Spread(calculateMetrics(benchmarkHistory[1], Null,
                                                 RISK_FREE_RATE),
                                [beta |-> Box(One), alpha |-> Box(Zero)]),
                         benchmarkHistory[1])>>
              ELSE Null)
    /\ pc' = "done"
    /\ UNCHANGED store
    /\ UNCHANGED <<payload, pending, rawPriceData, missingTickers,
                   alignedPriceData, benchmarkHistory, resultsData, p, i,
                   shares, portfolioHistory>>

\* benchmarkResult = benchmarkHistory ? {...} : null; return json(...)
Respond ==
    /\ pc = "portfolio"
    /\ p > Len(payload.portfolios)
    /\ response' =
          jsonResponse(resultsData,
              IF benchmarkHistory # Null
              THEN <<SimulationResult(payload.benchmark,
                         Spread(calculateMetrics(benchmarkHistory[1], Null,
                                                 RISK_FREE_RATE),
                                [beta |-> Box(One), alpha |-> Box(Zero)]),
                         benchmarkHistory[1])>>
              ELSE Null)
    /\ pc' = "done"
    /\ UNCHANGED store
    /\ UNCHANGED <<payload, pending, rawPriceData, missingTickers,
                   alignedPriceData, benchmarkHistory, resultsData, p, i,
                   shares, portfolioHistory>>

Next ==
    \/ \E ticker \in {"A", "B"} : FetchFound(ticker)
    \/ \E ticker \in {"A", "B"} : FetchMissing(ticker)
    \/ AwaitAll
    \/ Align
    \/ Benchmark
    \/ StartPortfolio
    \/ SimStep
    \/ FinishPortfolio
    \/ Respond

Spec == Init /\ [][Next]_vars

(***************************************************************************)
(* The handler from the alignment on, for one ticker whose series the      *)
(* bucket holds: longer calendars and the prices of the worked scenario.   *)
(***************************************************************************)
\* two dates of one month, three months of one quarter's neighbourhood, the
\* last day of a year and the first days of the next
SimDatePool ==
    {MkDate(2020, 1, 15), MkDate(2020, 1, 31), MkDate(2020, 2, 29),
     MkDate(2020, 4, 1), MkDate(2020, 12, 31), MkDate(2021, 1, 4)}

PriceCalendar ==
    {MkDate(2020, 1, 15), MkDate(2020, 2, 29), MkDate(2020, 4, 1),
     MkDate(2021, 1, 4)}

\* every calendar of two dates or more at the price 1, and every price
\* series over PriceCalendar
SimSeries ==
    {[d \in S |-> 1] : S \in {T \in SUBSET SimDatePool : Cardinality(T) >= 2}}
    \cup [PriceCalendar -> Prices]

\* prices for ticker A = {2020-01-01: 100, 2020-07-01: 105, 2021-01-01: 121}
ScenarioSeries ==
    (MkDate(2020, 1, 1) :> 100) @@ (MkDate(2020, 7, 1) :> 105)
        @@ (MkDate(2021, 1, 1) :> 121)

SimPayload(period, benchmark, initialAmount) ==
    [portfolios |-> <<PortfolioConfig("P1", <<"A">>, <<100>>, period)>>,
     initialAmount |-> initialAmount,
     startYear |-> 2020, startMonth |-> 1, endYear |-> 2021, endMonth |-> 1,
     benchmark |-> benchmark]

\* a period the type does not list can still arrive in the JSON, and so
\* can a benchmark of white space
SimInputs ==
    {[payload |-> SimPayload(period, benchmark, Amount), series |-> series] :
        period \in Periods \cup {"weekly"}, benchmark \in {"", " ", "A"},
        series \in SimSeries}
    \cup {[payload |-> SimPayload("never", benchmark, 1000),
            series |-> ScenarioSeries] : benchmark \in {"", "A"}}

\* every fetch has settled and nothing is missing
SimInit ==
    /\ \E input \in SimInputs :
          /\ payload = input.payload
          /\ rawPriceData = [t \in {"A"} |-> input.series]
    /\ pc = "align"
    /\ pending = {}
    /\ missingTickers = <<>>
    /\ alignedPriceData = [dates |-> <<>>, prices |-> <<>>]
    /\ benchmarkHistory = Null
    /\ resultsData = <<>>
    /\ p = 0
    /\ i = 0
    /\ shares = <<>>
    /\ portfolioHistory = <<>>
    /\ response = NoResponse
    /\ STOCK_DATA_BUCKET = <<>>
    /\ remote = <<>>
    /\ fetches = <<>>

SimNext ==
    \/ Align
    \/ Benchmark
    \/ StartPortfolio
    \/ SimStep
    \/ FinishPortfolio
    \/ Respond

SimSpec == SimInit /\ [][SimNext]_vars

(***************************************************************************)
(* calculateMetrics on its own: the end of a simulation whose history and  *)
(* benchmark history are any value series.                                 *)
(***************************************************************************)
ValueMenu == {Zero, EPSILON, One, Num(MaxValue), Num(MaxValue * MaxValue)}

\* benchmark values of m points: flat, alternating between 1 and MaxValue,
\* flat with a last point of zero, alternating with a second point of zero
BenchmarkShapes(m) ==
    LET flat == [k \in 1 .. m |-> One]
        zigzag == [k \in 1 .. m |-> IF k % 2 = 1 THEN One ELSE Num(MaxValue)]
    IN  {flat, zigzag,
         [k \in 1 .. m |-> IF k = m THEN Zero ELSE flat[k]],
         [k \in 1 .. m |-> IF k = 2 THEN Zero ELSE zigzag[k]]}

\* a benchmark one point shorter than n: alternating between 1 and MaxValue
ShorterBenchmarks(n) ==
    IF n = 0 THEN {}
    ELSE {[k \in 1 .. n - 1 |-> IF k % 2 = 1 THEN One ELSE Num(MaxValue)]}

HistoryOf(values) ==
    [k \in 1 .. Len(values) |-> [date |-> MkDate(2020, k, 1), value |-> values[k]]]

Histories(menu) ==
    {HistoryOf(values) : values \in UNION {[1 .. n -> menu] : n \in 0 .. MaxLen}}

\* the benchmark is absent, or as long as the portfolio's history, or one
\* point shorter
MetricsInit ==
    /\ portfolioHistory \in Histories(ValueMenu)
    /\ benchmarkHistory \in
          {Null} \cup
          {<<HistoryOf(values)>> :
              values \in BenchmarkShapes(Len(portfolioHistory))
                            \cup ShorterBenchmarks(Len(portfolioHistory))}
    /\ payload = SimPayload("never", "", Amount)
    /\ alignedPriceData =
          [dates |-> [k \in 1 .. Len(portfolioHistory) |-> portfolioHistory[k].date],
           prices |-> [t \in {"A"} |->
                          [k \in 1 .. Len(portfolioHistory) |-> Box(1)]]]
    /\ pc = "loop"
    /\ pending = {}
    /\ rawPriceData = <<>>
    /\ missingTickers = <<>>
    /\ resultsData = <<>>
    /\ p = 1
    /\ i = Len(portfolioHistory) + 1
    /\ shares = <<Num(Amount)>>
    /\ response = NoResponse
    /\ STOCK_DATA_BUCKET = <<>>
    /\ remote = <<>>
    /\ fetches = <<>>

MetricsNext ==
    \/ FinishPortfolio
    \/ Respond

MetricsSpec == MetricsInit /\ [][MetricsNext]_vars

(***************************************************************************)
(* The fetches of the handler, one promise per ticker, step by step, with  *)
(* the bucket and yfinance as stores: fetchAndCacheFromYfinance and        *)
(* parseCsvToMap on texts.                                                 *)
(***************************************************************************)
YfinanceHeader ==
    <<"Date", ",", "Open", ",", "High", ",", "Low", ",", "Close", ",",
      "Adj Close", ",", "Volume">>

\* !(!originalCsvText || !originalCsvText.startsWith('Date,Open,...,Volume'))
validCsv(originalCsvText) ==
    originalCsvText # <<>> /\ startsWith(originalCsvText, YfinanceHeader)

\* for (const line of lines) if (values[dateIndex] && values[adjCloseIndex])
\*    reformattedCsvLines.push(`${values[dateIndex]},${values[adjCloseIndex]}`)
RECURSIVE reformatLines(_, _, _, _)
reformatLines(lines, k, dateIndex, adjCloseIndex) ==
    IF k > Len(lines) THEN <<>>
    ELSE LET values == split(lines[k], ",")
             date == At(values, dateIndex)
             close == At(values, adjCloseIndex)
         IN  (IF date # <<>> /\ close # <<>>
              THEN <<date \o <<",">> \o close>> ELSE <<>>)
                \o reformatLines(lines, k + 1, dateIndex, adjCloseIndex)

\* the text fetchAndCacheFromYfinance makes of a valid one, boxed; Null when
\* it throws because a column is not in the header
reformat(originalCsvText) ==
    LET lines == split(trimText(originalCsvText), "\n")
        header == split(Head(lines), ",")
        dateIndex == indexOf(header, <<"Date">>)
        adjCloseIndex == indexOf(header, <<"Adj Close">>)
    IN  IF dateIndex = -1 \/ adjCloseIndex = -1 THEN Null
        ELSE <<join(<<<<"Date", ",", "Close">>>>
                       \o reformatLines(Tail(lines), 1, dateIndex, adjCloseIndex),
                    "\n")>>

\* the locals of a fetch promise
Fetching(stage, reformattedCsvText, csvText) ==
    [stage |-> stage, reformattedCsvText |-> reformattedCsvText,
     csvText |-> csvText]

\* object = await env.STOCK_DATA_BUCKET.get(...); if (object !== null)
\* csvText = await object.text(); else fetchAndCacheFromYfinance is called
BucketGet(ticker) ==
    /\ pc = "fetch"
    /\ ticker \in pending
    /\ fetches[ticker].stage = "get"
    /\ fetches' =
          [fetches EXCEPT ![ticker] =
              IF STOCK_DATA_BUCKET[ticker] # Null
              THEN Fetching("settle", Null, STOCK_DATA_BUCKET[ticker])
              ELSE Fetching("yfinance", Null, Null)]
    /\ UNCHANGED <<STOCK_DATA_BUCKET, remote>>
    /\ UNCHANGED <<payload, pc, pending, rawPriceData, missingTickers,
                   alignedPriceData, benchmarkHistory, resultsData, p, i,
                   shares, portfolioHistory, response>>

\* fetchAndCacheFromYfinance up to its put: the fetch rejects, or the
\* response is not OK, or the text is not valid, or a column is missing
\* (the catch returns null), or the text is reformatted
YfinanceFetch(ticker) ==
    /\ pc = "fetch"
    /\ ticker \in pending
    /\ fetches[ticker].stage = "yfinance"
    /\ LET answer == remote[ticker].response IN
       fetches' =
          [fetches EXCEPT ![ticker] =
              IF answer = Null THEN Fetching("settle", Null, Null)
              ELSE IF ~answer[1].ok THEN Fetching("settle", Null, Null)
              ELSE IF ~validCsv(answer[1].body)
              THEN Fetching("settle", Null, Null)
              ELSE IF reformat(answer[1].body) = Null
              THEN Fetching("settle", Null, Null)
              ELSE Fetching("put", reformat(answer[1].body), Null)]
    /\ UNCHANGED <<STOCK_DATA_BUCKET, remote>>
    /\ UNCHANGED <<payload, pc, pending, rawPriceData, missingTickers,
                   alignedPriceData, benchmarkHistory, resultsData, p, i,
                   shares, portfolioHistory, response>>

\* Variant: the text is returned whether the put completed or not.
BucketPutUnawaited(ticker) ==
    /\ pc = "fetch"
    /\ ticker \in pending
    /\ fetches[ticker].stage = "put"
    /\ IF remote[ticker].putFails
       THEN /\ UNCHANGED STOCK_DATA_BUCKET
            /\ fetches' =
                  [fetches EXCEPT ![ticker] =
                      Fetching("settle", @.reformattedCsvText,
                               @.reformattedCsvText)]
       ELSE /\ STOCK_DATA_BUCKET' =
                  [STOCK_DATA_BUCKET EXCEPT
                      ![ticker] = fetches[ticker].reformattedCsvText]
            /\ fetches' =
                  [fetches EXCEPT ![ticker] =
                      Fetching("settle", @.reformattedCsvText,
                               @.reformattedCsvText)]
    /\ UNCHANGED remote
    /\ UNCHANGED <<payload, pc, pending, rawPriceData, missingTickers,
                   alignedPriceData, benchmarkHistory, resultsData, p, i,
                   shares, portfolioHistory, response>>

\* await env.STOCK_DATA_BUCKET.put(...); return reformattedCsvText, or the
\* put throws and the catch returns null
BucketPut(ticker) ==
    /\ pc = "fetch"
    /\ ticker \in pending
    /\ fetches[ticker].stage = "put"
    /\ IF remote[ticker].putFails
       THEN /\ UNCHANGED STOCK_DATA_BUCKET
            /\ fetches' =
                  [fetches EXCEPT ![ticker] =
                      Fetching("settle", @.reformattedCsvText, Null)]
       ELSE /\ STOCK_DATA_BUCKET' =
                  [STOCK_DATA_BUCKET EXCEPT
                      ![ticker] = fetches[ticker].reformattedCsvText]
            /\ fetches' =
                  [fetches EXCEPT ![ticker] =
                      Fetching("settle", @.reformattedCsvText,
                               @.reformattedCsvText)]
    /\ UNCHANGED remote
    /\ UNCHANGED <<payload, pc, pending, rawPriceData, missingTickers,
                   alignedPriceData, benchmarkHistory, resultsData, p, i,
                   shares, portfolioHistory, response>>

\* if (csvText): the text is neither null nor empty
truthy(csvText) == csvText # Null /\ csvText[1] # <<>>

\* if (csvText) rawPriceData[ticker] = parseCsvToMap(csvText)
\* else missingTickers.push(ticker); and the promise is settled
Settle(ticker) ==
    /\ pc = "fetch"
    /\ ticker \in pending
    /\ fetches[ticker].stage = "settle"
    /\ IF truthy(fetches[ticker].csvText)
       THEN /\ rawPriceData' =
                  [t \in DOMAIN rawPriceData \cup {ticker} |->
                      IF t = ticker
                      THEN parseCsvToMap(fetches[ticker].csvText[1])
                      ELSE rawPriceData[t]]
            /\ UNCHANGED missingTickers
       ELSE /\ missingTickers' = Append(missingTickers, ticker)
            /\ UNCHANGED rawPriceData
    /\ pending' = pending \ {ticker}
    /\ fetches' = [fetches EXCEPT ![ticker].stage = "settled"]
    /\ UNCHANGED <<STOCK_DATA_BUCKET, remote>>
    /\ UNCHANGED <<payload, pc, alignedPriceData, benchmarkHistory,
                   resultsData, p, i, shares, portfolioHistory, response>>

\* the rows a stored Date,Close text is made of: good ones, a price that is
\* no number, a field that is empty or missing, a number followed by
\* something, white space, a blank line, a third field
RowMenu ==
    { <<"d1", ",", "1">>, <<"d2", ",", "2">>, <<"d1", ",", "0">>,
      <<"d1", ",", "x">>, <<"d2", ",">>, <<",", "1">>, <<"d1">>,
      <<"d2", ",", "1", "x">>, <<"d1", ",", " ", "2">>, <<>>,
      <<"d2", ",", "1", ",", "2">>, <<"d2", ",", "1", "2", "\r">> }

\* the sequences of at most n elements of S
RECURSIVE SeqsUpTo(_, _)
SeqsUpTo(S, n) ==
    IF n = 0 THEN {<<>>}
    ELSE LET shorter == SeqsUpTo(S, n - 1)
         IN  shorter \cup {Append(rows, row) : rows \in shorter, row \in S}

\* the texts the bucket can hold: a header and at most MaxRows rows, also
\* with a newline at the end, and the empty text
CsvTexts ==
    LET texts == {join(<<<<"Date", ",", "Close">>>> \o rows, "\n") :
                     rows \in SeqsUpTo(RowMenu, MaxRows)}
    IN  texts \cup {Append(text, "\n") : text \in texts} \cup {<<>>}

\* the rows of a yfinance text: a good one, an Adj Close that is no number,
\* an empty Adj Close, a short row, an empty Date
YfinanceRowMenu ==
    { <<"d1", ",", "1", ",", "1", ",", "1", ",", "1", ",", "2", ",", "0">>,
      <<"d2", ",", "1", ",", "1", ",", "1", ",", "1", ",", "x", ",", "0">>,
      <<"d1", ",", "1", ",", "1", ",", "1", ",", "1", ",", ",", "0">>,
      <<"d2", ",", "1">>,
      <<",", "1", ",", "1", ",", "1", ",", "1", ",", "1", ",", "0">> }

\* what yfinance can send as a body: the header and at most MaxRows rows, or
\* nothing, or a page that is no CSV, or other columns, or the header after
\* a space
YfinanceBodies ==
    {join(<<YfinanceHeader>> \o rows, "\n") :
        rows \in SeqsUpTo(YfinanceRowMenu, MaxRows)}
    \cup { <<>>, <<"x">>,
           <<"Date", ",", "Adj Close", "\n", "d1", ",", "1">>,
           <<" ">> \o YfinanceHeader }

Remote(answer, putFails) == [response |-> answer, putFails |-> putFails]

\* yfinance is unreachable, or answers with an error status, or answers OK
\* with a body, and then the put fails or not
RemoteMenu ==
    {Remote(Null, FALSE), Remote(<<[ok |-> FALSE, body |-> <<"x">>]>>, FALSE)}
    \cup {Remote(<<[ok |-> TRUE, body |-> body]>>, putFails) :
             body \in YfinanceBodies, putFails \in BOOLEAN}

GoodCsv == <<"Date", ",", "Close", "\n", "d1", ",", "1", "\n", "d2", ",", "2">>
GoodBody == join(<<YfinanceHeader,
                   <<"d1", ",", "1", ",", "1", ",", "1", ",", "1", ",", "2", ",", "0">>>>,
                 "\n")

\* for one ticker among two: the bucket has a text, or an empty one, or
\* none and yfinance fails in each way or succeeds
SourceMenu ==
    {[object |-> <<GoodCsv>>, remote |-> Remote(Null, FALSE)],
     [object |-> <<<<>>>>, remote |-> Remote(Null, FALSE)],
     [object |-> Null, remote |-> Remote(Null, FALSE)],
     [object |-> Null,
      remote |-> Remote(<<[ok |-> FALSE, body |-> <<"x">>]>>, FALSE)],
     [object |-> Null,
      remote |-> Remote(<<[ok |-> TRUE, body |-> GoodBody]>>, FALSE)],
     [object |-> Null,
      remote |-> Remote(<<[ok |-> TRUE, body |-> GoodBody]>>, TRUE)]}

\* one ticker with every text and every answer, with no benchmark or a
\* blank one; two tickers, the second as the benchmark, with a few
FetchInputs ==
    {[payload |-> SimPayload("never", b, Amount),
      objects |-> [t \in {"A"} |-> <<text>>],
      remote |-> [t \in {"A"} |-> Remote(Null, FALSE)]] :
        text \in CsvTexts, b \in {"", " "}}
    \cup {[payload |-> SimPayload("never", "", Amount),
           objects |-> [t \in {"A"} |-> Null],
           remote |-> [t \in {"A"} |-> r]] : r \in RemoteMenu}
    \cup {[payload |-> SimPayload("never", "B", Amount),
           objects |-> [t \in {"A", "B"} |-> source[t].object],
           remote |-> [t \in {"A", "B"} |-> source[t].remote]] :
             source \in [{"A", "B"} -> SourceMenu]}

FetchInit ==
    /\ \E input \in FetchInputs :
          /\ payload = input.payload
          /\ STOCK_DATA_BUCKET = input.objects
          /\ remote = input.remote
    /\ fetches = [t \in allTickers(payload) |-> Fetching("get", Null, Null)]
    /\ pc = "fetch"
    /\ pending = allTickers(payload)
    /\ rawPriceData = <<>>
    /\ missingTickers = <<>>
    /\ alignedPriceData = [dates |-> <<>>, prices |-> <<>>]
    /\ benchmarkHistory = Null
    /\ resultsData = <<>>
    /\ p = 0
    /\ i = 0
    /\ shares = <<>>
    /\ portfolioHistory = <<>>
    /\ response = NoResponse

FetchNext ==
    \/ \E ticker \in {"A", "B"} : BucketGet(ticker)
    \/ \E ticker \in {"A", "B"} : YfinanceFetch(ticker)
    \/ \E ticker \in {"A", "B"} : BucketPut(ticker)
    \/ \E ticker \in {"A", "B"} : Settle(ticker)
    \/ AwaitAll

FetchSpec == FetchInit /\ [][FetchNext]_vars

(***************************************************************************)
(* What the claims speak of.                                               *)
(***************************************************************************)
\* |x - y| <= tol
Within(x, y, tol) == RLe(RAbs(RSub(x, y)), tol)

\* the calendar has been built (no ticker was missing)
Aligned ==
    pc \in {"benchmark", "portfolio", "loop"}
    \/ (pc = "done" /\ Len(missingTickers) = 0)

\* runPortfolioSimulation is in its loop, about to value date i
InLoop == pc = "loop"
current == payload.portfolios[p]
dates == alignedPriceData.dates
triggers == getRebalancingDates(dates, current.rebalancingPeriod)
\* the price of the current portfolio's j-th ticker on the k-th date
priceOf(j, k) == ToNumber(alignedPriceData.prices[current.tickers[j]][k])
holdingValue(j, k) == RMul(shares[j], Num(priceOf(j, k)))
targetWeight(j) == Rat(current.weights[j], 100)

RECURSIVE SumInts(_, _)
SumInts(seq, k) == IF k > Len(seq) THEN 0 ELSE seq[k] + SumInts(seq, k + 1)

RECURSIVE SumHoldings(_, _)
SumHoldings(j, k) ==
    IF j > Len(shares) THEN Zero
    ELSE RAdd(holdingValue(j, k), SumHoldings(j + 1, k))

\* amount * EPSILON / price: what adding EPSILON to the divisor price can
\* take from an allocation of amount
EpsilonScale(amount, price) ==
    RDiv(RMul(RAbs(amount), EPSILON), Num(price))

MinInitialPrice ==
    SetMin({priceOf(j, 1) : j \in DOMAIN current.tickers})

JustInitialized == InLoop /\ i = 1

\* C1 as stated: for every portfolio with a non-empty ticker list and
\* non-zero date-0 prices, the initial share counts are worth initialAmount
\* at the date-0 prices, within the tolerance initialAmount * EPSILON /
\* (smallest date-0 price).
C1_InitialValueAnyWeights ==
    (/\ JustInitialized
     /\ Len(current.tickers) > 0
     /\ \A j \in DOMAIN current.tickers : priceOf(j, 1) # 0)
    => Within(SumHoldings(1, 1), Num(payload.initialAmount),
              EpsilonScale(Num(payload.initialAmount), MinInitialPrice))

\* C1 amended: the same, for the portfolios whose weights are non-negative
\* and sum to 100 and whose date-0 prices are positive.
C1_InitialValueWeights100 ==
    (/\ JustInitialized
     /\ Len(current.tickers) > 0
     /\ \A j \in DOMAIN current.tickers : priceOf(j, 1) > 0
     /\ \A j \in DOMAIN current.weights : current.weights[j] >= 0
     /\ SumInts(current.weights, 1) = 100)
    => Within(SumHoldings(1, 1), Num(payload.initialAmount),
              EpsilonScale(Num(payload.initialAmount), MinInitialPrice))

C1_Witness ==
    /\ JustInitialized
    /\ Len(current.tickers) = 2
    /\ SumInts(current.weights, 1) = 100
    /\ priceOf(1, 1) = 1
    /\ priceOf(2, 1) = 2

\* the tickers for which no source produced text
Unobtainable == allTickers(payload) \ DOMAIN rawPriceData

C3_ShortCalendarRefused ==
    (Aligned /\ Len(alignedPriceData.dates) < 2)
    => /\ pc = "done"
       /\ response = insufficientDatesError
       /\ response.status = 400
       /\ benchmarkHistory = Null
       /\ resultsData = <<>>
       /\ shares = <<>>
       /\ portfolioHistory = <<>>

C3_Witness ==
    /\ pc = "done"
    /\ Aligned
    /\ Len(alignedPriceData.dates) = 1
    /\ response.status = 400

\* C4: the dates of the aligned calendar are strictly increasing, every
\* ticker of the input has a price sequence as long as the date sequence,
\* and no price in it is null.
C4_CalendarWellFormed ==
    Aligned =>
       /\ \A k \in 1 .. Len(dates) - 1 : dates[k] < dates[k + 1]
       /\ DOMAIN alignedPriceData.prices = DOMAIN rawPriceData
       /\ \A t \in DOMAIN rawPriceData :
             /\ Len(alignedPriceData.prices[t]) = Len(dates)
             /\ \A k \in 1 .. Len(dates) : alignedPriceData.prices[t][k] # Null

\* a calendar of two dates, a third having been dropped for a missing entry
C4_Witness ==
    /\ Aligned
    /\ Len(dates) = 2
    /\ Cardinality(DOMAIN rawPriceData) = 2
    /\ \E t \in DOMAIN rawPriceData :
          Cardinality(DOMAIN rawPriceData[t]) = 3

\* the window, from the year and month of a date: not before the start
\* month, not after the end month
InWindow(date) ==
    LET ym(y, m) == y * 12 + m
        dm == ym(getUTCFullYear(date), getUTCMonth(date) + 1)
    IN  /\ ym(payload.startYear, payload.startMonth) <= dm
        /\ dm <= ym(payload.endYear, payload.endMonth)

\* C5: a date of the input is in the aligned calendar if and only if it
\* lies in the window and every ticker of the input has an entry for it;
\* a retained date carries exactly the input's prices, whatever they are.
C5_StrictIntersection ==
    Aligned =>
       \A date \in UNION {DOMAIN rawPriceData[t] : t \in DOMAIN rawPriceData} :
          /\ date \in Range(dates)
                <=> /\ InWindow(date)
                    /\ \A t \in DOMAIN rawPriceData : date \in DOMAIN rawPriceData[t]
          /\ \A k \in 1 .. Len(dates) :
                dates[k] = date =>
                   \A t \in DOMAIN rawPriceData :
                      alignedPriceData.prices[t][k] = Box(rawPriceData[t][date])

\* a retained date with a zero price, and a date dropped for one ticker only
C5_Witness ==
    /\ Aligned
    /\ \E k \in 1 .. Len(dates) : \E t \in DOMAIN rawPriceData :
          alignedPriceData.prices[t][k] = Box(0)
    /\ \E date \in DateSet : \E t, u \in DOMAIN rawPriceData :
          /\ InWindow(date)
          /\ date \in DOMAIN rawPriceData[t]
          /\ date \notin DOMAIN rawPriceData[u]
          /\ date \notin Range(dates)

\* C6: with rebalancingPeriod never the trigger set is empty, and at every
\* date of the loop the share counts are the initial allocation
\* initialAmount * weight / 100 / (date-0 price + EPSILON), whatever the
\* prices have done since.
C6_NeverKeepsInitialShares ==
    (InLoop /\ current.rebalancingPeriod = "never")
    => /\ triggers = {}
       /\ \A j \in DOMAIN shares :
             RMul(shares[j], RAdd(Num(priceOf(j, 1)), EPSILON))
                = RMul(Num(payload.initialAmount), targetWeight(j))

\* the loop has passed two dates whose prices differ
C6_Witness ==
    /\ InLoop
    /\ current.rebalancingPeriod = "never"
    /\ i = 3
    /\ Len(current.tickers) = 2
    /\ priceOf(1, 1) = 1 /\ priceOf(1, 2) = 2
    /\ priceOf(2, 1) = 2 /\ priceOf(2, 2) = 1

\* the loop has just handled date i - 1, a trigger date without zero price
JustRebalanced ==
    /\ InLoop
    /\ i >= 2
    /\ dates[i - 1] \in triggers
    /\ \A j \in DOMAIN current.tickers : priceOf(j, i - 1) # 0

\* C7: after the rebalance of a trigger date t on which no price is zero,
\* every holding is worth its weight's share of the value recorded for t,
\* at the prices of t: shares_j * price_j(t) is within
\* (weight_j / 100) * value(t) * EPSILON / price_j(t) of
\* (weight_j / 100) * value(t).
C7_RebalanceResetsToWeights ==
    JustRebalanced =>
       \A j \in DOMAIN current.tickers :
          LET target == RMul(targetWeight(j), portfolioHistory[i - 1].value)
          IN  Within(holdingValue(j, i - 1), target,
                     EpsilonScale(target, priceOf(j, i - 1)))

\* 50/50, one price doubled and the other halved before the trigger date
C7_Witness ==
    /\ JustRebalanced
    /\ i = 3
    /\ current.weights = <<50, 50>>
    /\ priceOf(1, 1) = 1 /\ priceOf(1, 2) = 2
    /\ priceOf(2, 1) = 2 /\ priceOf(2, 2) = 1

DefaultMetrics ==
    [cagr |-> Zero, mdd |-> Zero, volatility |-> Zero, sharpe_ratio |-> Zero,
     sortino_ratio |-> Zero, beta |-> Null, alpha |-> Null]

\* the k-th portfolio of the request has a ticker whose date-0 price is zero
ZeroAtDate0(k) ==
    /\ Len(dates) > 0
    /\ \E j \in DOMAIN payload.portfolios[k].tickers :
          alignedPriceData.prices[payload.portfolios[k].tickers[j]][1] = Box(0)

\* C8: a portfolio with a ticker whose date-0 price is exactly zero never
\* enters the simulation loop, and its result is an empty history with the
\* default metrics record: five zeros, beta and alpha absent.
C8_ZeroInitialPriceIsDegenerate ==
    Aligned =>
       /\ InLoop => ~ZeroAtDate0(p)
       /\ \A k \in DOMAIN resultsData :
             ZeroAtDate0(k) =>
                /\ resultsData[k].portfolioHistory = <<>>
                /\ resultsData[k].metrics = DefaultMetrics

C8_Witness ==
    /\ Aligned
    /\ \E k \in DOMAIN resultsData :
          /\ ZeroAtDate0(k)
          /\ Len(payload.portfolios[k].tickers) = 2
          /\ resultsData[k].portfolioHistory = <<>>

\* the loop is about to handle a trigger date on which some price is zero
AtZeroPriceTrigger ==
    /\ InLoop
    /\ i <= Len(dates)
    /\ dates[i] \in triggers
    /\ \E j \in DOMAIN current.tickers : priceOf(j, i) = 0

\* C9: the step that handles a trigger date on which a price is exactly
\* zero records that date's value and leaves the share counts as they were.
C9_ZeroPriceRebalanceSkipped ==
    [][AtZeroPriceTrigger =>
          /\ shares' = shares
          /\ Len(portfolioHistory') = Len(portfolioHistory) + 1
          /\ portfolioHistory'[i].date = dates[i]
          /\ portfolioHistory'[i].value = SumHoldings(1, i)]_vars

\* date i - 1 was a trigger date with a zero price, and its value is recorded
C9_Witness ==
    /\ InLoop
    /\ i >= 2
    /\ dates[i - 1] \in triggers
    /\ \E j \in DOMAIN current.tickers : priceOf(j, i - 1) = 0
    /\ \E j \in DOMAIN current.tickers : priceOf(j, i - 1) # 0
    /\ Len(portfolioHistory) = i - 1

\* C10: in a successful response every portfolio's history is empty or has
\* exactly one entry per date of the aligned calendar, in calendar order
\* and with the calendar's dates.
C10_HistoryEmptyOrComplete ==
    response.status = 200 =>
       \A k \in DOMAIN response.data :
          LET history == response.data[k].portfolioHistory IN
          \/ history = <<>>
          \/ /\ Len(history) = Len(dates)
             /\ \A n \in 1 .. Len(dates) : history[n].date = dates[n]

\* one response with a complete history and an empty one
C10_Witness ==
    /\ response.status = 200
    /\ Len(response.data) = 2
    /\ response.data[1].portfolioHistory # <<>>
    /\ Len(response.data[1].portfolioHistory) = 3
    /\ response.data[2].portfolioHistory = <<>>

\* every result so far is the function of its own portfolio, the calendar
\* and the benchmark history
ResultsAreOwn ==
    \A k \in DOMAIN resultsData :
        resultsData[k] =
            runPortfolioSimulation(payload.portfolios[k], alignedPriceData,
                                   payload.initialAmount, benchmarkHistory)

\* a step of a simulation leaves the calendar, the benchmark history and
\* the results already returned as they were
SimulationFrame ==
    pc \in {"portfolio", "loop"} =>
       /\ alignedPriceData' = alignedPriceData
       /\ benchmarkHistory' = benchmarkHistory
       /\ \A k \in DOMAIN resultsData :
             k \in DOMAIN resultsData' /\ resultsData'[k] = resultsData[k]

\* C11: no step of a portfolio's simulation changes the aligned calendar,
\* the benchmark history or a result already returned, and every result is
\* what runPortfolioSimulation gives for that portfolio alone on the
\* calendar: it does not depend on the portfolios simulated before it.
C11_NoSharedState == []ResultsAreOwn /\ [][SimulationFrame]_vars

\* two results: the first portfolio, rebalanced monthly, was degenerate for
\* a zero date-0 price; the second, simulated after it, has its full history
C11_Witness ==
    /\ Len(resultsData) = 2
    /\ payload.portfolios[1].rebalancingPeriod = "monthly"
    /\ payload.portfolios[2].rebalancingPeriod = "never"
    /\ alignedPriceData.prices[payload.portfolios[1].tickers[1]][1] = Box(0)
    /\ resultsData[1].portfolioHistory = <<>>
    /\ Len(resultsData[2].portfolioHistory) = 3
    /\ resultsData[2].portfolioHistory[3].value # Zero

\* the response to a request whose one portfolio is 100% of ticker A and
\* whose benchmark is ticker A
RoundTrip ==
    /\ response.status = 200
    /\ payload.benchmark = "A"
    /\ Len(payload.portfolios) = 1
    /\ payload.portfolios[1].tickers = <<"A">>
    /\ payload.portfolios[1].weights = <<100>>

tripHistory == response.data[1].portfolioHistory
tripMetrics == response.data[1].metrics
tripBenchmark == response.benchmark[1].portfolioHistory
tripPrice(k) == ToNumber(alignedPriceData.prices["A"][k])
tripTriggers ==
    getRebalancingDates(dates, payload.portfolios[1].rebalancingPeriod)

\* date j saw an allocation: the initial one, or a rebalance that was applied
Allocated(j) ==
    j = 1 \/ (dates[j] \in tripTriggers /\ tripPrice(j) # 0)

\* what the allocations before date k (the initial one included) keep of
\* the holding: the product of price / (price + EPSILON) over them
RECURSIVE AllocationLoss(_)
AllocationLoss(k) ==
    LET j == IF k = 1 THEN 1 ELSE k - 1
        before == IF k <= 2 THEN One ELSE AllocationLoss(k - 1)
    IN  IF Allocated(j)
        THEN RMul(before, RDiv(Num(tripPrice(j)),
                               RAdd(Num(tripPrice(j)), EPSILON)))
        ELSE before

\* C12 as stated: the portfolio's value equals the benchmark's at every
\* calendar date, and beta is 1 and alpha is 0 within EPSILON.
C12_RoundTripIdentical ==
    RoundTrip =>
       /\ Len(tripHistory) = Len(tripBenchmark)
       /\ \A k \in DOMAIN tripHistory :
             tripHistory[k].value = tripBenchmark[k].value
       /\ tripMetrics.beta # Null
       /\ Within(tripMetrics.beta[1], One, EPSILON)
       /\ tripMetrics.alpha = Box(Zero)

\* C12 amended: the two histories cover the same dates; the portfolio's
\* value at a date is the benchmark's value times price / (price + EPSILON)
\* for the initial allocation and for every rebalance applied before that
\* date, so it is never above the benchmark's; and without rebalancing beta
\* and alpha are both absent, or beta is 1 and alpha is 0.
C12_RoundTripWithinEpsilon ==
    RoundTrip =>
       /\ Len(tripHistory) = Len(tripBenchmark)
       /\ \A k \in DOMAIN tripHistory :
             /\ tripHistory[k].date = tripBenchmark[k].date
             /\ tripHistory[k].value
                   = RMul(tripBenchmark[k].value, AllocationLoss(k))
             /\ RLe(tripHistory[k].value, tripBenchmark[k].value)
       /\ tripTriggers = {} =>
             \/ tripMetrics.beta = Null /\ tripMetrics.alpha = Null
             \/ tripMetrics.beta = Box(One) /\ tripMetrics.alpha = Box(Zero)

\* without rebalancing, over four dates with a rise and a fall: beta is 1
C12_Witness ==
    /\ RoundTrip
    /\ payload.portfolios[1].rebalancingPeriod = "never"
    /\ Len(tripHistory) = 4
    /\ tripPrice(1) = 1 /\ tripPrice(2) = 2 /\ tripPrice(3) = 1
    /\ tripMetrics.beta = Box(One)
    /\ tripMetrics.alpha = Box(Zero)
    /\ tripHistory[2].value # tripBenchmark[2].value

\* calculateMetrics has returned for the history it was given
Measured == Len(resultsData) = 1 /\ pc \in {"portfolio", "done"}
measuredHistory == resultsData[1].portfolioHistory
measured == resultsData[1].metrics

NonDecreasing(history) ==
    \A k \in 1 .. Len(history) - 1 :
        RLe(history[k].value, history[k + 1].value)

\* C13 as stated: for every value series the returned mdd is <= 0, and it
\* is 0 if and only if the series is non-decreasing.
C13_MddZeroIffNonDecreasing ==
    Measured =>
       /\ RLe(measured.mdd, Zero)
       /\ measured.mdd = Zero <=> NonDecreasing(measuredHistory)

\* C13 amended: the returned mdd is <= 0 for every value series; it is 0
\* for a series of fewer than two points and -1 for a series whose first
\* value is below EPSILON; for a series of two points or more whose first
\* value is above EPSILON it is 0 if and only if the series is
\* non-decreasing.
C13_MddZeroIffNonDecreasingAboveEpsilon ==
    Measured =>
       /\ RLe(measured.mdd, Zero)
       /\ Len(measuredHistory) < 2 => measured.mdd = Zero
       /\ (Len(measuredHistory) >= 2 /\ RLt(measuredHistory[1].value, EPSILON))
             => measured.mdd = Num(-1)
       /\ (Len(measuredHistory) >= 2 /\ RLt(EPSILON, measuredHistory[1].value))
             => (measured.mdd = Zero <=> NonDecreasing(measuredHistory))

\* a rise to a peak and a fall to half of it
C13_Witness ==
    /\ Measured
    /\ Len(measuredHistory) = 3
    /\ measuredHistory[1].value = One
    /\ measuredHistory[2].value = Num(2)
    /\ measuredHistory[3].value = One
    /\ measured.mdd = Rat(-1, 2)

\* the worked scenario: ticker A at 100, 105, 121 on 2020-01-01, 2020-07-01
\* and 2021-01-01; 100% A, never rebalanced, initialAmount 1000
Scenario ==
    /\ rawPriceData = [t \in {"A"} |-> ScenarioSeries]
    /\ payload.portfolios =
          <<PortfolioConfig("P1", <<"A">>, <<100>>, "never")>>
    /\ payload.initialAmount = 1000

scenarioValues == <<1000, 1050, 1210>>
scenarioPrices == <<100, 105, 121>>

\* C14 as stated: in the scenario the simulator holds exactly 10 shares at
\* every date, records exactly the values 1000, 1050 and 1210, and reports
\* mdd = 0.
C14_ScenarioExact ==
    Scenario =>
       /\ InLoop => shares = <<Num(10)>>
       /\ Len(resultsData) = 1 =>
             /\ Len(resultsData[1].portfolioHistory) = 3
             /\ \A k \in 1 .. 3 :
                   resultsData[1].portfolioHistory[k].value
                      = Num(scenarioValues[k])
             /\ resultsData[1].metrics.mdd = Zero

\* C14 amended: in the scenario the simulator holds 1000 / (100 + EPSILON)
\* shares at every date, which is 10 within 10 * EPSILON / 100; it records
\* one value per date, each below 1000, 1050, 1210 by no more than that
\* value * EPSILON / 100; and it reports mdd = 0.
C14_ScenarioWithinEpsilon ==
    Scenario =>
       /\ InLoop =>
             /\ Len(shares) = 1
             /\ RMul(shares[1], RAdd(Num(100), EPSILON)) = Num(1000)
             /\ Within(shares[1], Num(10), EpsilonScale(Num(10), 100))
       /\ Len(resultsData) = 1 =>
             /\ Len(resultsData[1].portfolioHistory) = 3
             /\ \A k \in 1 .. 3 :
                   LET point == resultsData[1].portfolioHistory[k] IN
                   /\ point.date = dates[k]
                   /\ point.value = RMul(shares[1], Num(scenarioPrices[k]))
                   /\ RLe(point.value, Num(scenarioValues[k]))
                   /\ Within(point.value, Num(scenarioValues[k]),
                             EpsilonScale(Num(scenarioValues[k]), 100))
             /\ resultsData[1].metrics.mdd = Zero

\* the scenario's response
C14_Witness ==
    /\ Scenario
    /\ response.status = 200
    /\ dates = <<MkDate(2020, 1, 1), MkDate(2020, 7, 1), MkDate(2021, 1, 1)>>
    /\ Len(response.data[1].portfolioHistory) = 3
    /\ response.data[1].metrics.mdd = Zero
    /\ response.data[1].metrics.cagr # Zero

\* the bucket of a date string YYYY-MM-DD, read off its digits: the year,
\* the year and quarter, or the year and month
BucketOf(date, period) ==
    LET year == date \div 10000
        month == (date \div 100) % 100
    IN  IF period = "annually" THEN <<year>>
        ELSE IF period = "quarterly" THEN <<year, (month + 2) \div 3>>
        ELSE <<year, month>>

\* C15: for a bucketed period the trigger set is exactly the dates whose
\* bucket differs from the bucket of the date before them; each bucket
\* other than the first date's holds exactly one trigger, its earliest
\* date, and the first date's bucket holds none.
C15_TriggersAreBucketStarts ==
    (InLoop /\ current.rebalancingPeriod \in {"annually", "quarterly", "monthly"})
    => LET period == current.rebalancingPeriod
           bucket(k) == BucketOf(dates[k], period)
       IN  /\ triggers =
                 {dates[k] : k \in {n \in 2 .. Len(dates) : bucket(n) # bucket(n - 1)}}
           /\ \A k \in 1 .. Len(dates) :
                 LET inBucket == {d \in triggers : BucketOf(d, period) = bucket(k)} IN
                 IF bucket(k) = bucket(1) THEN inBucket = {}
                 ELSE inBucket =
                        {SetMin({dates[n] : n \in {m \in 1 .. Len(dates) :
                                                      bucket(m) = bucket(k)}})}

\* a calendar with two dates in one month, a quarter boundary and a year
\* boundary, scanned by quarter: three triggers among five later dates
C15_Witness ==
    /\ InLoop
    /\ current.rebalancingPeriod = "quarterly"
    /\ Len(dates) = 6
    /\ triggers = {MkDate(2020, 4, 1), MkDate(2020, 12, 31), MkDate(2021, 1, 4)}

\* C16: the first date of the calendar is in no trigger set, whatever the
\* period, and the step that handles it leaves the initial allocation in
\* place.
C16_FirstDateNeverTriggers ==
    InLoop =>
       /\ dates[1] \notin triggers
       /\ i = 2 =>
             shares = allocate(current.weights, Num(payload.initialAmount),
                               pricesAt(current.tickers, alignedPriceData, 1))

\* monthly triggers on every later date, and the first step is behind
C16_Witness ==
    /\ InLoop
    /\ i = 2
    /\ current.rebalancingPeriod = "monthly"
    /\ Len(dates) = 4
    /\ Cardinality(triggers) = 3
    /\ priceOf(1, 1) = 1

\* the benchmark's price on the k-th date
benchmarkPrice(k) == ToNumber(alignedPriceData.prices[payload.benchmark][k])

\* C17: the benchmark history, once computed, has one point per calendar
\* date with value(t) * price0 = initialAmount * price(t) when the
\* benchmark's date-0 price is not zero, and is empty when it is zero.
C17_BenchmarkBuyAndHold ==
    benchmarkHistory # Null =>
       IF benchmarkPrice(1) # 0
       THEN /\ Len(benchmarkHistory[1]) = Len(dates)
            /\ \A k \in 1 .. Len(dates) :
                  /\ benchmarkHistory[1][k].date = dates[k]
                  /\ RMul(benchmarkHistory[1][k].value, Num(benchmarkPrice(1)))
                        = Num(payload.initialAmount * benchmarkPrice(k))
       ELSE benchmarkHistory[1] = <<>>

\* the benchmark doubled, fell to nothing and came back
C17_Witness ==
    /\ benchmarkHistory # Null
    /\ Len(benchmarkHistory[1]) = 4
    /\ benchmarkPrice(1) = 1 /\ benchmarkPrice(2) = 2
    /\ benchmarkPrice(3) = 0 /\ benchmarkPrice(4) = 1
    /\ benchmarkHistory[1][2].value = Num(2 * payload.initialAmount)
    /\ benchmarkHistory[1][3].value = Zero

\* the number of daily returns calculateMetrics keeps of a history: one per
\* point after the first whose previous value is above EPSILON
UsableReturnCount(history) ==
    Cardinality({k \in 2 .. Len(history) : RLt(EPSILON, history[k - 1].value)})

\* the values of a history, in order
ValuesOf(history) == [k \in 1 .. Len(history) |-> history[k].value]

\* a benchmark was given, it is as long as the portfolio's history, and the
\* two kept return series are equally long with at least 2 entries
Comparable ==
    /\ benchmarkHistory # Null
    /\ Len(benchmarkHistory[1]) = Len(measuredHistory)
    /\ UsableReturnCount(benchmarkHistory[1]) = UsableReturnCount(measuredHistory)
    /\ UsableReturnCount(measuredHistory) >= 2

\* C18: beta and alpha are computed only when a benchmark series of the same
\* length is given and the two return series, after the skip rule, are
\* equally long with at least 2 entries; in every other case both are absent.
C18_BetaAlphaOnlyWhenComparable ==
    Measured =>
       (~Comparable => measured.beta = Null /\ measured.alpha = Null)

\* a 4-point history with 3 returns against a 4-point benchmark whose second
\* point is zero, hence with 2 returns: beta and alpha are absent
C18_Witness ==
    /\ Measured
    /\ ValuesOf(measuredHistory) = <<One, Num(2), One, Num(2)>>
    /\ benchmarkHistory # Null
    /\ ValuesOf(benchmarkHistory[1]) = <<One, Zero, One, Num(2)>>
    /\ UsableReturnCount(measuredHistory) = 3
    /\ UsableReturnCount(benchmarkHistory[1]) = 2
    /\ measured.beta = Null
    /\ measured.alpha = Null

\* C19: beta is absent whenever the population variance of the benchmark's
\* returns is at most EPSILON, and alpha is present only when beta is.
C19_BetaNeedsVariance ==
    Measured =>
       /\ (benchmarkHistory # Null
             /\ RLe(variance_p(returnsFrom(benchmarkHistory[1], 2)), EPSILON))
          => measured.beta = Null
       /\ measured.alpha # Null => measured.beta # Null

\* a benchmark 1, 1, 1, 0 has returns 0, 0, -1 of population variance 2/9,
\* which is positive and not above EPSILON: beta and alpha are absent
C19_Witness ==
    /\ Measured
    /\ ValuesOf(measuredHistory) = <<One, Num(2), One, Num(2)>>
    /\ benchmarkHistory # Null
    /\ ValuesOf(benchmarkHistory[1]) = <<One, One, One, Zero>>
    /\ variance_p(returnsFrom(benchmarkHistory[1], 2)) = Rat(2, 9)
    /\ RLe(Rat(2, 9), EPSILON)
    /\ measured.beta = Null
    /\ measured.alpha = Null

\* the number of kept daily returns of a history that are negative
NegativeReturnCount(history) ==
    Cardinality({k \in 2 .. Len(history) :
                    /\ RLt(EPSILON, history[k - 1].value)
                    /\ RLt(history[k].value, history[k - 1].value)})

\* C20: the Sharpe ratio is 0 whenever the volatility is at most EPSILON, and
\* the Sortino ratio is 0 whenever the downside deviation is at most
\* EPSILON, which includes every history with fewer than 2 negative returns.
C20_RatiosGuarded ==
    Measured =>
       /\ ~RealLt(EPSILON, measured.volatility) => measured.sharpe_ratio = Zero
       /\ ~RealLt(EPSILON, downsideStdOf(returnsFrom(measuredHistory, 2)))
             => measured.sortino_ratio = Zero
       /\ NegativeReturnCount(measuredHistory) < 2
             => measured.sortino_ratio = Zero

\* a history 1, 2, 4 has the returns 1, 1: no volatility, no negative return
\* and a growth rate other than 0, and both ratios are 0
C20_Witness ==
    /\ Measured
    /\ ValuesOf(measuredHistory) = <<One, Num(2), Num(4)>>
    /\ measured.cagr # Zero
    /\ measured.volatility = Zero
    /\ measured.sharpe_ratio = Zero
    /\ measured.sortino_ratio = Zero

\* the ticker's promise has settled with a text that was parsed
Parsed(t) == t \in DOMAIN fetches /\ fetches[t].stage = "settled"
                /\ t \in DOMAIN rawPriceData
parsedText(t) == fetches[t].csvText[1]

\* the data rows of a text: its lines after the first, the white space at
\* the two ends of the text set aside
DataRows(text) == Tail(split(trimText(text), "\n"))

\* a field parses to a number when a digit follows its leading white space
Numeric(field) ==
    trimStart(field) # <<>> /\ Head(trimStart(field)) \in Digits

\* the row has a date field that is not empty and a price field that parses
\* to a number
GoodRow(row) ==
    LET fields == split(row, ",")
    IN  Len(fields) >= 2 /\ fields[1] # <<>> /\ Numeric(fields[2])

rowDate(row) == split(row, ",")[1]
rowPrice(row) == split(row, ",")[2]

\* C21: the map parsed from a text has an entry for a date exactly when a
\* data row has that date, not empty, and a price field that parses to a
\* number; the entry is the number of the last such row, whatever the other
\* rows are, and it is never NaN.
C21_MalformedRowsSkipped ==
    \A t \in {"A", "B"} :
        Parsed(t) =>
           LET rows == DataRows(parsedText(t))
               good == {k \in 1 .. Len(rows) : GoodRow(rows[k])}
               priceMap == rawPriceData[t]
           IN  /\ DOMAIN priceMap = {rowDate(rows[k]) : k \in good}
               /\ \A k \in good :
                     (\A n \in good : rowDate(rows[n]) = rowDate(rows[k]) => n <= k)
                     => priceMap[rowDate(rows[k])] = parseFloat(rowPrice(rows[k]))
               /\ \A date \in DOMAIN priceMap : ~isNaN(priceMap[date])

\* a text whose first row has a price that is no number and whose second
\* row is good: the map has the second row's entry only
C21_Witness ==
    /\ Parsed("A")
    /\ parsedText("A") =
          <<"Date", ",", "Close", "\n", "d1", ",", "x", "\n",
            "d2", ",", "1", "2", "\r">>
    /\ DOMAIN rawPriceData["A"] = {<<"d2">>}
    /\ rawPriceData["A"][<<"d2">>] = 12

\* yfinance answers OK with a valid text that can be reformatted, and the
\* put of the result completes
FallbackProduces(t) ==
    /\ remote[t].response # Null
    /\ remote[t].response[1].ok
    /\ startsWith(remote[t].response[1].body, YfinanceHeader)
    /\ ~remote[t].putFails

\* the bucket has a text for the ticker that is not empty, or it has none
\* and the fallback produces one (which it then puts into the bucket)
Obtainable(t) ==
    \/ STOCK_DATA_BUCKET[t] # Null /\ STOCK_DATA_BUCKET[t][1] # <<>>
    \/ STOCK_DATA_BUCKET[t] = Null /\ FallbackProduces(t)

KeptOf(body) ==
    LET rows == Tail(split(trimText(body), "\n"))
        Has(row) == LET fields == split(row, ",")
                    IN  Len(fields) >= 6 /\ fields[1] # <<>> /\ fields[6] # <<>>
        kept == SelectSeq(rows, Has)
    IN  [k \in 1 .. Len(kept) |->
            split(kept[k], ",")[1] \o <<",">> \o split(kept[k], ",")[6]]

\* the ticker's promise called the fallback and the call has returned
ViaFallback(t) ==
    /\ fetches[t].stage \in {"settle", "settled"}
    /\ STOCK_DATA_BUCKET[t] = Null \/ fetches[t].reformattedCsvText # Null

\* what the fallback returns is null unless it produced a text, and then it
\* is the text the bucket now holds
ReturnsWhatWasPut ==
    \A t \in DOMAIN fetches :
        ViaFallback(t) =>
           IF FallbackProduces(t)
           THEN /\ fetches[t].csvText # Null
                /\ STOCK_DATA_BUCKET[t] = fetches[t].csvText
           ELSE /\ fetches[t].csvText = Null
                /\ STOCK_DATA_BUCKET[t] = Null

\* a step that changes the bucket's object of a ticker follows an OK answer
\* with a valid text, and writes its Date,Close form
PutsOnlyReformatted ==
    \A t \in DOMAIN STOCK_DATA_BUCKET :
        STOCK_DATA_BUCKET'[t] # STOCK_DATA_BUCKET[t] =>
           /\ remote[t].response # Null
           /\ remote[t].response[1].ok
           /\ startsWith(remote[t].response[1].body, YfinanceHeader)
           /\ STOCK_DATA_BUCKET'[t] =
                 <<join(<<<<"Date", ",", "Close">>>>
                           \o KeptOf(remote[t].response[1].body), "\n")>>

\* C30: fetchAndCacheFromYfinance writes the ticker's object only after an
\* OK answer whose text passed the header validation, and writes the text
\* reformatted to Date,Close rows; on every failure (no answer, an error
\* status, an invalid text, a put that fails) it returns null, and it
\* returns a text only if the put completed.
C30_CachedOnlyWhenValid == []ReturnsWhatWasPut /\ [][PutsOnlyReformatted]_vars

\* the fallback's text had a good row and a row without Adj Close: the good
\* row alone is written and returned
C30_Witness ==
    /\ "A" \in DOMAIN fetches
    /\ fetches["A"].stage = "settled"
    /\ remote["A"].response # Null
    /\ Len(split(remote["A"].response[1].body, "\n")) = 3
    /\ STOCK_DATA_BUCKET["A"] =
          <<<<"Date", ",", "Close", "\n", "d1", ",", "2">>>>
    /\ fetches["A"].csvText = STOCK_DATA_BUCKET["A"]
    /\ DOMAIN rawPriceData["A"] = {<<"d1">>}

\* the loop is about to value a date that is not a trigger date
AtPlainDate ==
    /\ InLoop
    /\ i <= Len(dates)
    /\ dates[i] \notin triggers

\* C23: the step that values a date which is not in the trigger set leaves
\* the share counts as they are, so the next date is valued with the same
\* shares.
C23_SharesChangeOnlyAtTriggers ==
    [][AtPlainDate => shares' = shares]_vars

\* two tickers rebalanced annually: the second date of 2020 is no trigger,
\* a price has moved since the first date, and the third date is about to
\* be valued with the shares of the initial allocation
C23_Witness ==
    /\ InLoop
    /\ i = 3
    /\ Len(current.tickers) = 2
    /\ current.rebalancingPeriod = "annually"
    /\ dates[2] \notin triggers
    /\ priceOf(1, 2) # priceOf(1, 1)
    /\ priceOf(2, 2) = priceOf(2, 1)
    /\ shares = allocate(current.weights, Num(payload.initialAmount),
                         pricesAt(current.tickers, alignedPriceData, 1))

\* the loop is about to value a trigger date on which no price of the
\* current portfolio is zero, and the weights sum to 100
AtRebalance ==
    /\ InLoop
    /\ i <= Len(dates)
    /\ dates[i] \in triggers
    /\ \A j \in DOMAIN current.tickers : priceOf(j, i) # 0
    /\ SumInts(current.weights, 1) = 100

\* the least price of the current portfolio's tickers on the k-th date
MinPriceAt(k) == SetMin({priceOf(j, k) : j \in DOMAIN current.tickers})

\* C24: the value recorded on a trigger date is that of the shares held
\* before the rebalance, and the shares held after it, valued at the same
\* date's prices, are worth that value up to the scale of EPSILON (not more,
\* and less by at most value * EPSILON / least price).
C24_RebalancePreservesValue ==
    [][AtRebalance =>
          LET recorded == portfolioHistory'[i].value
              after == RSumFrom([j \in DOMAIN current.tickers |->
                                    RMul(shares'[j], Num(priceOf(j, i)))], 1)
          IN  /\ recorded = SumHoldings(1, i)
              /\ RLe(after, recorded)
              /\ Within(after, recorded, EpsilonScale(recorded, MinPriceAt(i)))]_vars

\* two tickers at 50/50 whose prices have moved apart were rebalanced on
\* the previous date: the shares are no longer those of the initial
\* allocation, and their worth at that date's prices is within the scale of
\* EPSILON of the value recorded, without being equal to it
C24_Witness ==
    /\ JustRebalanced
    /\ Len(current.tickers) = 2
    /\ SumInts(current.weights, 1) = 100
    /\ priceOf(1, 1) = priceOf(2, 1)
    /\ priceOf(1, i - 1) # priceOf(2, i - 1)
    /\ shares # allocate(current.weights, Num(payload.initialAmount),
                         pricesAt(current.tickers, alignedPriceData, 1))
    /\ SumHoldings(1, i - 1) # portfolioHistory[i - 1].value
    /\ Within(SumHoldings(1, i - 1), portfolioHistory[i - 1].value,
              EpsilonScale(portfolioHistory[i - 1].value, MinPriceAt(i - 1)))

\* C25: on the aligned calendar, the trigger dates of annual rebalancing are
\* trigger dates of quarterly rebalancing, and those of quarterly
\* rebalancing are trigger dates of monthly rebalancing.
C25_TriggerSetsNested ==
    /\ getRebalancingDates(dates, "annually")
          \subseteq getRebalancingDates(dates, "quarterly")
    /\ getRebalancingDates(dates, "quarterly")
          \subseteq getRebalancingDates(dates, "monthly")

\* the calendar of the six dates: one annual trigger, three quarterly and
\* four monthly ones
C25_Witness ==
    /\ InLoop
    /\ Len(dates) = 6
    /\ getRebalancingDates(dates, "annually") = {MkDate(2021, 1, 4)}
    /\ getRebalancingDates(dates, "quarterly")
          = {MkDate(2020, 4, 1), MkDate(2020, 12, 31), MkDate(2021, 1, 4)}
    /\ getRebalancingDates(dates, "monthly")
          = {MkDate(2020, 2, 29), MkDate(2020, 4, 1), MkDate(2020, 12, 31),
             MkDate(2021, 1, 4)}

\* the mapping without the ticker x
Without(x) == [t \in DOMAIN rawPriceData \ {x} |-> rawPriceData[t]]

\* the calendar aligned for the whole mapping is within the one aligned for
\* the mapping without x, and the prices the other tickers have on its
\* dates are the same in both
ShrinksWith(x) ==
    LET smaller == createAlignedPriceData(Without(x), payload)
    IN  /\ Range(dates) \subseteq Range(smaller.dates)
        /\ \A t \in DOMAIN rawPriceData \ {x} :
              \A k \in DOMAIN dates :
                 \A n \in DOMAIN smaller.dates :
                    smaller.dates[n] = dates[k]
                    => smaller.prices[t][n] = alignedPriceData.prices[t][k]

\* C26 as stated: for every mapping M and extra ticker x, the calendar
\* aligned for M plus x is a subset of the one aligned for M, with the
\* prices of M's tickers unchanged on its dates.
C26_AddingTickerShrinks ==
    Aligned => \A x \in DOMAIN rawPriceData : ShrinksWith(x)

\* C26 for a mapping M that is not empty: the calendar aligned for M plus x
\* is a subset of the one aligned for M, with the prices of M's tickers
\* unchanged on its dates.
C26_AddingTickerShrinksNonEmpty ==
    Aligned =>
       \A x \in DOMAIN rawPriceData :
          DOMAIN rawPriceData \ {x} # {} => ShrinksWith(x)

\* A has a price on the three dates and B on the first and the last: the
\* calendar of A alone has three dates, that of A and B two, and A's
\* prices on them are its own
C26_Witness ==
    /\ Aligned
    /\ DOMAIN rawPriceData = {"A", "B"}
    /\ Len(createAlignedPriceData(Without("B"), payload).dates) = 3
    /\ dates = <<MkDate(2020, 1, 15), MkDate(2021, 1, 4)>>
    /\ rawPriceData["A"][MkDate(2020, 1, 15)] = 1
    /\ rawPriceData["A"][MkDate(2021, 1, 4)] = MaxPrice
    /\ alignedPriceData.prices["A"] = <<Box(1), Box(MaxPrice)>>

\* the request names no benchmark: the string is empty or white space
NoBenchmarkNamed == payload.benchmark \in {"", " "}

\* C27: in a response of status 200 the benchmark entry is null exactly when
\* the request names no benchmark; an entry that is present has beta 1 and
\* alpha 0, also when its history is empty because the benchmark's date-0
\* price is zero; and when no benchmark is named, beta and alpha are absent
\* from every portfolio's result.
C27_BenchmarkEntry ==
    response.status = 200 =>
       /\ response.benchmark = Null <=> NoBenchmarkNamed
       /\ response.benchmark # Null =>
             /\ response.benchmark[1].name = payload.benchmark
             /\ response.benchmark[1].metrics.beta = Box(One)
             /\ response.benchmark[1].metrics.alpha = Box(Zero)
       /\ NoBenchmarkNamed =>
             \A k \in DOMAIN response.data :
                /\ response.data[k].metrics.beta = Null
                /\ response.data[k].metrics.alpha = Null

\* the benchmark's date-0 price is zero: its entry is there, with an empty
\* history, beta 1 and alpha 0
C27_Witness ==
    /\ response.status = 200
    /\ payload.benchmark = "A"
    /\ Len(dates) = 4
    /\ benchmarkPrice(1) = 0
    /\ benchmarkPrice(2) # 0
    /\ response.benchmark # Null
    /\ response.benchmark[1].portfolioHistory = <<>>
    /\ response.benchmark[1].metrics.beta = Box(One)
    /\ response.benchmark[1].metrics.alpha = Box(Zero)

\* every price of the aligned calendar is above zero
AllPricesPositive ==
    \A t \in DOMAIN alignedPriceData.prices :
        \A k \in DOMAIN alignedPriceData.prices[t] :
            ToNumber(alignedPriceData.prices[t][k]) > 0

\* no weight of the k-th portfolio of the request is below zero
WeightsNonNegative(k) ==
    \A j \in DOMAIN payload.portfolios[k].weights :
        payload.portfolios[k].weights[j] >= 0

Degenerate(k) == Len(payload.portfolios[k].tickers) = 0 \/ ZeroAtDate0(k)

\* C29: a response of status 200 has one result per portfolio of the
\* request, the k-th with the name of the k-th portfolio; the result of a
\* degenerate portfolio is at its position with an empty history, and that
\* of any other has one point per date.
C29_OneResultPerPortfolio ==
    response.status = 200 =>
       /\ Len(response.data) = Len(payload.portfolios)
       /\ \A k \in DOMAIN payload.portfolios :
             /\ response.data[k].name = payload.portfolios[k].name
             /\ IF Degenerate(k)
                THEN response.data[k].portfolioHistory = <<>>
                ELSE Len(response.data[k].portfolioHistory) = Len(dates)

\* the first of two portfolios is degenerate for a zero date-0 price: the
\* response has it first, with an empty history, and the second after it
\* with its three points
C29_Witness ==
    /\ response.status = 200
    /\ Len(payload.portfolios) = 2
    /\ ZeroAtDate0(1)
    /\ ~Degenerate(2)
    /\ response.data[1].name = "P1"
    /\ response.data[1].portfolioHistory = <<>>
    /\ response.data[2].name = "P2"
    /\ Len(response.data[2].portfolioHistory) = 3
====
